---------------------------- MODULE Spec2Model ----------------------------
(***************************************************************************)
(* A model of the Mount Sinai pre-med scraper (src/mtsinai_scraper.py) and *)
(* of the text cleaner it calls (src/text_cleaner.py).                     *)
(*                                                                         *)
(* Text is modelled as TLA+ strings, read character by character with Len  *)
(* and SubSeq, so that cleaning, classification and URL filtering are      *)
(* computed the way the Python code computes them.  A regular expression   *)
(* is modelled by an operator that gives the end (exclusive) of its match  *)
(* at a position, 0 when it does not match there; a search looks for the   *)
(* least position with a match, as the re module does.                     *)
(***************************************************************************)
EXTENDS Integers, Sequences, FiniteSets, TLC

VARIABLES
    pc,               \* the position in the run, "done" at its end
    pages_to_visit,   \* the Frontier (scrape's local list)
    visited_urls,     \* self.visited_urls
    content,          \* self.content: URL -> PageRecord
    important_paths,  \* self.important_paths (Known-Path List)
    downloaded_pdfs,  \* self.downloaded_pdfs
    raw_file,         \* what save_results wrote to config.raw_file
    processed_file,   \* what save_results wrote to config.processed_file
    get_page_calls,   \* history: the URLs get_page was called with, in order
    last,             \* history: what the last step of scrape did
    faults,           \* environment: network faults so far
    tally,            \* history: the seeds, the appended links, the dequeues
    doc,              \* input of the page pipeline: a parsed document
    classify_in,      \* input of the classifier: [title, text]
    classified,       \* output of the classifier: <<content_type, text>>
    validation        \* the run of SmartPreMedValidator.validate_coverage

vars == <<pc, pages_to_visit, visited_urls, content, important_paths,
          downloaded_pdfs, raw_file, processed_file, get_page_calls, last,
          faults, tally, doc, classify_in, classified, validation>>

\* the None of Python where a text is expected
None == "<None>"

-----------------------------------------------------------------------------
(* Strings *)

\* s[i] with 1-based i; "" outside the string
At(s, i) == IF 1 <= i /\ i <= Len(s) THEN SubSeq(s, i, i) ELSE ""

CharSet(s) == {SubSeq(s, i, i) : i \in 1..Len(s)}

AsciiLower == "abcdefghijklmnopqrstuvwxyz"
AsciiUpper == "ABCDEFGHIJKLMNOPQRSTUVWXYZ"

DigitSet == CharSet("0123456789")
LetterSet == CharSet(AsciiLower \o AsciiUpper)
\* \w of the re module, on ASCII text
WordSet == LetterSet \cup DigitSet \cup {"_"}
\* \s of the re module, on ASCII text
SpaceSet == {" ", "\t", "\n", "\r", "\f"}

\* the least and the greatest of a set of positions, 0 for the empty set
First(S) == IF S = {} THEN 0 ELSE CHOOSE x \in S : \A y \in S : x <= y
Last(S) == IF S = {} THEN 0 ELSE CHOOSE x \in S : \A y \in S : x >= y

\* s[a..b], "" when a > b
Between(s, a, b) == IF a > b THEN "" ELSE SubSeq(s, a, b)

\* s[:i-1], s when i = 0
Before(s, i) == IF i = 0 THEN s ELSE SubSeq(s, 1, i - 1)

\* s.startswith(p, i)
MatchAt(s, i, p) ==
    i >= 1 /\ i + Len(p) - 1 <= Len(s) /\ SubSeq(s, i, i + Len(p) - 1) = p

StartsWith(s, p) == MatchAt(s, 1, p)

EndsWith(s, p) == MatchAt(s, Len(s) - Len(p) + 1, p)

\* s.find(p, i): the first position >= i where p occurs, 0 when there is none
Find(s, p, i) == First({k \in i..(Len(s) - Len(p) + 1) : MatchAt(s, k, p)})

\* p in s
Contains(s, p) == Find(s, p, 1) > 0

\* s.rfind(c) for a character c, from position i down: 0 when there is none
LastIndexOf(s, c, i) == Last({k \in 1..i : At(s, k) = c})

\* c.lower() for a character c
LowerChar(c) ==
    IF Find(AsciiUpper, c, 1) > 0 THEN At(AsciiLower, Find(AsciiUpper, c, 1)) ELSE c

\* str.lower(), the two halves of the text lower-cased one after the other
RECURSIVE Lower(_)
Lower(s) ==
    IF Len(s) = 0 THEN ""
    ELSE IF Len(s) = 1 THEN LowerChar(s)
    ELSE Lower(SubSeq(s, 1, Len(s) \div 2))
         \o Lower(SubSeq(s, Len(s) \div 2 + 1, Len(s)))

\* the end (exclusive) of the longest run of characters of set cs from i
RunEnd(s, i, cs) ==
    IF i > Len(s) THEN i ELSE First({k \in i..(Len(s) + 1) : At(s, k) \notin cs})

\* the first position >= i of a character of cs, Len(s) + 1 when there is none
FirstOf(s, i, cs) ==
    IF i > Len(s) THEN i
    ELSE First({k \in i..(Len(s) + 1) : k > Len(s) \/ At(s, k) \in cs})

\* str.replace(old, new): the first occurrence replaced, then the rest
RECURSIVE Replace(_, _, _)
Replace(s, old, new) ==
    LET k == Find(s, old, 1)
    IN IF s = "" \/ k = 0 THEN s
       ELSE SubSeq(s, 1, k - 1) \o new
            \o Replace(Between(s, k + Len(old), Len(s)), old, new)

\* str.strip()
Strip(s) ==
    IF s = "" THEN ""
    ELSE Between(s, RunEnd(s, 1, SpaceSet),
                 Last({k \in 1..Len(s) : At(s, k) \notin SpaceSet}))

\* sep.join(parts)
RECURSIVE Join(_, _)
Join(sep, parts) ==
    IF parts = <<>> THEN ""
    ELSE IF Len(parts) = 1 THEN parts[1]
    ELSE parts[1] \o sep \o Join(sep, Tail(parts))

-----------------------------------------------------------------------------
(* text_cleaner.clean_text *)

\* html.unescape, on the character references the model's texts use, each
\* with and without its semicolon (the no-break space of &nbsp; is white
\* space to the \s+ that follows)
Entities == << <<"&amp;", "&">>, <<"&lt;", "<">>, <<"&gt;", ">">>,
               <<"&quot;", "\"">>, <<"&#39;", "'">>, <<"&nbsp;", " ">>,
               <<"&amp", "&">>, <<"&lt", "<">>, <<"&gt", ">">>,
               <<"&quot", "\"">>, <<"&#39", "'">>, <<"&nbsp", " ">> >>

\* the first entity from the k-th on that occurs at i, 0 when none does
RECURSIVE EntityAt(_, _, _)
EntityAt(s, i, k) ==
    IF k > Len(Entities) THEN 0
    ELSE IF MatchAt(s, i, Entities[k][1]) THEN k
    ELSE EntityAt(s, i, k + 1)

\* [\w\.-]
EmailSet == WordSet \cup {".", "-"}

\* the last position k in lo..hi with s[k] = "." and s[k+1] in \w, 0 if none
LastDot(s, lo, hi) ==
    Last({k \in lo..hi : At(s, k) = "." /\ At(s, k + 1) \in WordSet})

\* @[\w\.-]+\.\w+ where the local part ends at a: the domain part takes the
\* longest run that leaves a dot (at k) and a word character to the rest
EmailAfterLocal(s, i, a) ==
    LET k == LastDot(s, a + 2, RunEnd(s, a + 1, EmailSet) - 2)
    IN IF a > i /\ At(s, a) = "@" /\ k > 0 THEN RunEnd(s, k + 1, WordSet) ELSE 0

\* [\w\.-]+@[\w\.-]+\.\w+ at i
EmailEnd(s, i) == EmailAfterLocal(s, i, RunEnd(s, i, EmailSet))

\* [a-zA-Z] | [0-9] | [$-_@.&+] | [!*\\(\\),] | %XX : one character of a URL
\* ($-_ is the ASCII range 0x24..0x5F, which holds % as well)
UrlSet == LetterSet \cup DigitSet
          \cup CharSet("$%&'()*+,-./:;<=>?@[\\]^_") \cup CharSet("!*\\(),")

\* http[s]?:// at i: the end, 0 when it does not match
SchemeEnd(s, i) ==
    IF MatchAt(s, i, "https://") THEN i + 8
    ELSE IF MatchAt(s, i, "http://") THEN i + 7 ELSE 0

\* http[s]?://(?:...)+ at i
UrlEnd(s, i) ==
    LET h == SchemeEnd(s, i)
    IN IF h > 0 /\ RunEnd(s, h, UrlSet) > h THEN RunEnd(s, h, UrlSet) ELSE 0

\* [\w\s.,!?;:\'"-] : the characters clean_text keeps
KeptSet == WordSet \cup SpaceSet \cup CharSet(".,!?;:'\"-")

(***************************************************************************)
(* The substitutions of clean_text, by name:                               *)
(*   "entity"  html.unescape(text)                                         *)
(*   "spaces"  re.sub(r'\s+', ' ', text)                                   *)
(*   "email"   re.sub(r'[\w\.-]+@[\w\.-]+\.\w+', '', text)                 *)
(*   "url"     re.sub(r'http[s]?://(?:...)+', '', text)                    *)
(*   "special" re.sub(r'[^\w\s.,!?;:\'"-]', ' ', text)                     *)
(*   "punct"   re.sub(r'([.,!?;:])\s*', r'\1 ', text)                      *)
(***************************************************************************)

\* the end of the match of the pattern at i, 0 when it does not match there
SubEnd(kind, s, i) ==
    CASE kind = "entity" ->
            IF EntityAt(s, i, 1) > 0
            THEN i + Len(Entities[EntityAt(s, i, 1)][1]) ELSE 0
      [] kind = "spaces" ->
            IF At(s, i) \in SpaceSet THEN RunEnd(s, i, SpaceSet) ELSE 0
      [] kind = "email" -> EmailEnd(s, i)
      [] kind = "url" -> UrlEnd(s, i)
      [] kind = "special" -> IF At(s, i) \in KeptSet THEN 0 ELSE i + 1
      [] kind = "punct" ->
            IF At(s, i) \in CharSet(".,!?;:") THEN RunEnd(s, i + 1, SpaceSet)
            ELSE 0

\* what replaces the match at i
SubText(kind, s, i) ==
    CASE kind = "entity" -> Entities[EntityAt(s, i, 1)][2]
      [] kind \in {"spaces", "special"} -> " "
      [] kind \in {"email", "url"} -> ""
      [] kind = "punct" -> At(s, i) \o " "

\* the matches of the pattern in s as <<start, end>>, an end being the position
\* after the match
Spans(kind, s) ==
    {m \in {<<i, SubEnd(kind, s, i)>> : i \in 1..Len(s)} : m[2] > 0}

\* what the character at i becomes.  re.sub replaces the leftmost match and
\* goes on after its end, so a match that starts inside an earlier one is
\* not replaced on its own.  This is for the patterns "entity", "spaces",
\* "special" and "punct": their matches that overlap end at the same
\* position, so the characters inside any match that started earlier are
\* the ones consumed.
Piece(kind, s, spans, i) ==
    IF \E m \in spans : m[1] < i /\ i < m[2] THEN ""
    ELSE IF \E m \in spans : m[1] = i THEN SubText(kind, s, i)
    ELSE At(s, i)

\* the pieces of the characters lo..hi, concatenated
RECURSIVE Pieces(_, _, _, _, _)
Pieces(kind, s, spans, lo, hi) ==
    IF lo = hi THEN Piece(kind, s, spans, lo)
    ELSE Pieces(kind, s, spans, lo, (lo + hi) \div 2)
         \o Pieces(kind, s, spans, (lo + hi) \div 2 + 1, hi)

RECURSIVE re_sub(_, _)

\* the text with the leftmost match, at i (0: there is none), replaced and
\* the substitution made in the text after that match
SubAt(kind, s, i) ==
    IF i = 0 THEN s
    ELSE SubSeq(s, 1, i - 1) \o SubText(kind, s, i)
         \o re_sub(kind, Between(s, SubEnd(kind, s, i), Len(s)))

\* the substitution over the whole text: match after match for the e-mail
\* and URL patterns, position by position for the others
re_sub(kind, s) ==
    IF s = "" THEN ""
    ELSE IF kind \in {"email", "url"}
    THEN SubAt(kind, s, First({i \in 1..Len(s) : SubEnd(kind, s, i) > 0}))
    ELSE Pieces(kind, s, Spans(kind, s), 1, Len(s))

\* re.sub(prefix + r'.*$', '', text) on text without line breaks
CutFrom(s, prefix) == IF s = "" THEN "" ELSE Before(s, Find(s, prefix, 1))

\* text.replace(...) of "Normalize quotes" and "Fix common formatting issues",
\* as the source file has them
FixFormatting(text) ==
    Replace(Replace(Replace(Replace(Replace(Replace(Replace(Replace(text,
        "\"", "\""), "\"", "\""), "'", "'"),
        "toreach", "to reach"),
        "toxicology", "toxicology"),
        "mssm. edu", "@mssm.edu"),
        "proc mssm. edures", "procedures"),
        "mssm. education", "education")

\* the statements of clean_text that change the text, in order
Statement(k, text) ==
    CASE k = 1 -> re_sub("entity", text)
      [] k = 2 -> re_sub("spaces", text)
      [] k = 3 -> FixFormatting(text)
      [] k = 4 -> re_sub("email", text)
      [] k = 5 -> re_sub("url", text)
      [] k = 6 -> re_sub("special", text)
      [] k = 7 -> re_sub("spaces", text)
      [] k = 8 -> re_sub("punct", text)
      [] k = 9 -> CutFrom(text, "Learn More About")
      [] k = 10 -> CutFrom(text, "See All News")
      [] k = 11 -> Strip(text)

\* the text after the statements from the k-th on; each of them leaves the
\* empty text empty
RECURSIVE StatementsFrom(_, _)
StatementsFrom(text, k) ==
    IF text = "" \/ k > 11 THEN text
    ELSE StatementsFrom(Statement(k, text), k + 1)

clean_text(text) == StatementsFrom(text, 1)


-----------------------------------------------------------------------------
(* MountSinaiScraper.__init__ *)

base_url == "https://icahn.mssm.edu"

InitialPaths == <<
    "/education/financial-aid",
    "/education/student-financial-services",
    "/education/enhanced-scholarship-initiative",
    "/education/financial-aid/application",
    "/education/financial-aid/md-need-based",
    "/education/financial-aid/css-profile",
    "/education/financial-aid/fafsa",
    "/education/financial-aid/loans",
    "/education/financial-aid/tuition",
    "/education/financial-aid/payment",
    "/education/financial-aid/scholarships",
    "/education/admissions/financial-aid",
    "/education/medical/financial-aid",
    "/education/medical/admissions",
    "/education/medical/admissions/how-to-apply",
    "/education/medical/admissions/requirements",
    "/education/medical/admissions/selection-process",
    "/education/medical/admissions/interview",
    "/education/medical/admissions/timeline",
    "/education/medical/admissions/mcat",
    "/education/medical/admissions/prerequisites" >>

\* self.content_keywords, in the order of the dict literal
Categories == <<"tuition", "aid", "scholarships", "loans", "cost_of_living",
                "requirements", "mcat", "gpa", "timeline", "interview",
                "selection">>

content_keywords == <<
    <<"tuition", "cost", "fee", "expense", "payment", "billing">>,
    <<"financial aid", "fafsa", "css profile", "need-based", "assistance">>,
    <<"scholarship", "grant", "award", "merit">>,
    <<"loan", "borrowing", "repayment", "debt">>,
    <<"living expense", "housing cost", "budget", "cost of attendance">>,
    <<"prerequisite", "requirement", "required course", "academic preparation">>,
    <<"mcat", "medical college admission test", "standardized test">>,
    <<"gpa", "grade point average", "academic performance">>,
    <<"timeline", "deadline", "important date", "application cycle">>,
    <<"interview", "mmi", "multiple mini interview">>,
    <<"selection", "evaluation", "criteria", "holistic review">> >>

FinancialCategories == {"tuition", "aid", "scholarships", "loans", "cost_of_living"}

AdmissionsCategories == {"requirements", "mcat", "gpa", "timeline", "interview",
                         "selection"}

-----------------------------------------------------------------------------
(* urllib.parse, on http(s) URLs without dot segments *)

\* the position after "scheme://", 0 when the URL has no such prefix
AfterScheme(url) ==
    IF StartsWith(url, "https://") THEN 9
    ELSE IF StartsWith(url, "http://") THEN 8 ELSE 0

\* the path with its query and fragment, from its start a (0: no netloc)
PathFrom(url, a) ==
    IF a = 0 THEN "" ELSE Between(url, a, FirstOf(url, a, {"?", "#"}) - 1)

\* _splitparams: the path without the parameters of its last segment
SplitParams(path) ==
    LET slash == LastIndexOf(path, "/", Len(path))
    IN Before(path, Find(path, ";", IF slash = 0 THEN 1 ELSE slash))

\* urlparse(url).path
UrlPath(url) ==
    SplitParams(PathFrom(url, IF AfterScheme(url) = 0 THEN 0
                              ELSE FirstOf(url, AfterScheme(url), {"/", "?", "#"})))

\* the href has a scheme of its own (and, in the pages modelled, a netloc)
HasScheme(href) ==
    LET c == Find(href, ":", 1)
    IN /\ c > 1
       /\ At(href, 1) \in LetterSet
       /\ RunEnd(href, 1, LetterSet \cup DigitSet \cup {"+", "-", "."}) = c

\* urljoin(self.base_url, href); base_url has an empty path
urljoin(base, href) ==
    IF href = "" THEN base
    ELSE IF HasScheme(href) THEN href
    ELSE IF StartsWith(href, "//") THEN "https:" \o href
    ELSE IF StartsWith(href, "/") THEN base \o href
    ELSE IF At(href, 1) \in {"?", "#"} THEN base \o href
    ELSE base \o "/" \o href

-----------------------------------------------------------------------------
(* MountSinaiScraper.extract_content_by_category *)

\* \d{n} at i
DigitsAt(s, i, n) == \A k \in i..(i + n - 1) : At(s, k) \in DigitSet

\* the end f of an optional group (0: it did not match) after a match to b
OrElse(f, b) == IF f > 0 THEN f ELSE b

\* (?:\s*or\s*above)? at i: the end of the match, i when the group is skipped
OrAboveEnd(s, i) ==
    LET a == RunEnd(s, i, SpaceSet)
    IN IF MatchAt(s, a, "or") /\ MatchAt(s, RunEnd(s, a + 2, SpaceSet), "above")
       THEN RunEnd(s, a + 2, SpaceSet) + 5
       ELSE i

\* (?:semester|year|term) at e: the end, 0 when none matches
UnitEnd(s, e) ==
    IF MatchAt(s, e, "semester") THEN e + 8
    ELSE IF MatchAt(s, e, "year") THEN e + 4
    ELSE IF MatchAt(s, e, "term") THEN e + 4 ELSE 0

\* (?:per|/) at c: the end, 0 when none matches
PerEnd(s, c) ==
    IF MatchAt(s, c, "per") THEN c + 3
    ELSE IF MatchAt(s, c, "/") THEN c + 1 ELSE 0

\* (?:\s*(?:per|/)\s*(?:semester|year|term))? at b
OptPerUnit(s, b) ==
    LET d == PerEnd(s, RunEnd(s, b, SpaceSet))
    IN IF d = 0 THEN b ELSE OrElse(UnitEnd(s, RunEnd(s, d, SpaceSet)), b)

\* (?:\.\d{2})? at a
OptCents(s, a) == IF At(s, a) = "." /\ DigitsAt(s, a + 1, 2) THEN a + 3 ELSE a

\* \$[\d,]+(?:\.\d{2})?(?:\s*(?:per|/)\s*(?:semester|year|term))?
AmountEnd(s, i) ==
    IF At(s, i) = "$" /\ RunEnd(s, i + 1, DigitSet \cup {","}) > i + 1
    THEN OptPerUnit(s, OptCents(s, RunEnd(s, i + 1, DigitSet \cup {","})))
    ELSE 0

\* (?:required|prerequisite): at i, case-insensitive: the end, 0 if no match
RequiredEnd(s, i) ==
    IF MatchAt(Lower(s), i, "required:") THEN i + 9
    ELSE IF MatchAt(Lower(s), i, "prerequisite:") THEN i + 13
    ELSE 0

\* (?:required|prerequisite):[^.]*\.  with re.I
RequirementEnd(s, i) ==
    LET a == RequiredEnd(s, i)
    IN IF a > 0 /\ Find(s, ".", a) > 0 THEN Find(s, ".", a) + 1 ELSE 0

\* (?:\s*-\s*\d{3})? at a
OptScoreRange(s, a) ==
    LET w == RunEnd(s, a, SpaceSet)
    IN IF At(s, w) = "-" /\ DigitsAt(s, RunEnd(s, w + 1, SpaceSet), 3)
       THEN RunEnd(s, w + 1, SpaceSet) + 3
       ELSE a

\* \d{3}(?:\s*-\s*\d{3})?(?:\s*or\s*above)?
ScoreEnd(s, i) ==
    IF DigitsAt(s, i, 3) THEN OrAboveEnd(s, OptScoreRange(s, i + 3)) ELSE 0

\* \d+\.\d+ at i
DecimalEnd(s, i) ==
    LET a == RunEnd(s, i, DigitSet)
    IN IF a > i /\ At(s, a) = "." /\ RunEnd(s, a + 1, DigitSet) > a + 1
       THEN RunEnd(s, a + 1, DigitSet)
       ELSE 0

\* (?:\s*-\s*\d+\.\d+)? at a
OptGpaRange(s, a) ==
    LET w == RunEnd(s, a, SpaceSet)
    IN IF At(s, w) = "-"
       THEN OrElse(DecimalEnd(s, RunEnd(s, w + 1, SpaceSet)), a)
       ELSE a

\* \d+\.\d+(?:\s*-\s*\d+\.\d+)?(?:\s*or\s*above)?
GpaEnd(s, i) ==
    IF DecimalEnd(s, i) > 0 THEN OrAboveEnd(s, OptGpaRange(s, DecimalEnd(s, i)))
    ELSE 0

\* \d{1,2}/ at i, the longer alternative first: the end, 0 when there is none
ShortNumberSlashEnd(s, i) ==
    IF i = 0 THEN 0
    ELSE IF DigitsAt(s, i, 2) /\ At(s, i + 2) = "/" THEN i + 3
    ELSE IF DigitsAt(s, i, 1) /\ At(s, i + 1) = "/" THEN i + 2 ELSE 0

\* \d{1,2}/\d{1,2}/\d{2,4} at i: the year takes the digits from b to y, four
\* at most
SlashDateEnd(s, i) ==
    LET b == ShortNumberSlashEnd(s, ShortNumberSlashEnd(s, i))
        y == RunEnd(s, b, DigitSet)
    IN IF b > 0 /\ y >= b + 2 THEN (IF y > b + 4 THEN b + 4 ELSE y) ELSE 0

\* \d{4}-\d{2}-\d{2} at i
IsoDateEnd(s, i) ==
    IF DigitsAt(s, i, 4) /\ At(s, i + 4) = "-" /\ DigitsAt(s, i + 5, 2)
       /\ At(s, i + 7) = "-" /\ DigitsAt(s, i + 8, 2)
    THEN i + 10 ELSE 0

\* (?:\d{1,2}/\d{1,2}/\d{2,4}|\d{4}-\d{2}-\d{2}) at i
DateEnd(s, i) == OrElse(SlashDateEnd(s, i), IsoDateEnd(s, i))

\* .*?(?:<date>) from j: the end of the first date that starts at j or later
\* on the same line, 0 when there is none
FirstDateEnd(s, j) ==
    LET k == First({m \in j..Len(s) : DateEnd(s, m) > 0})
    IN IF k = 0 \/ \E m \in j..(k - 1) : At(s, m) = "\n" THEN 0
       ELSE DateEnd(s, k)

\* (?:deadline|due date|by) at i: the end, 0 when none matches
DeadlineWordEnd(s, i) ==
    IF MatchAt(s, i, "deadline") THEN i + 8
    ELSE IF MatchAt(s, i, "due date") THEN i + 8
    ELSE IF MatchAt(s, i, "by") THEN i + 2 ELSE 0

\* (?:deadline|due date|by)[:\s].*?(?:<date>)
DeadlineEnd(s, i) ==
    LET a == DeadlineWordEnd(s, i)
    IN IF a > 0 /\ At(s, a) \in SpaceSet \cup {":"} THEN FirstDateEnd(s, a + 1)
       ELSE 0

\* the regular expression of a summary, at i: the end of its match, 0 if none
PatternEnd(kind, s, i) ==
    CASE kind = "amounts" -> AmountEnd(s, i)
      [] kind = "requirements" -> RequirementEnd(s, i)
      [] kind = "scores" -> ScoreEnd(s, i)
      [] kind = "gpas" -> GpaEnd(s, i)
      [] kind = "dates" -> DeadlineEnd(s, i)
      [] OTHER -> 0

\* re.findall(pattern, s): the matches from left to right, none overlapping
RECURSIVE FindAllFrom(_, _, _)

\* the match at k, the leftmost from i on (0: there is none), and the
\* matches after it
FindAllAt(s, kind, k) ==
    IF k = 0 THEN <<>>
    ELSE <<SubSeq(s, k, PatternEnd(kind, s, k) - 1)>>
         \o FindAllFrom(s, PatternEnd(kind, s, k), kind)

FindAllFrom(s, i, kind) ==
    FindAllAt(s, kind, First({m \in i..Len(s) : PatternEnd(kind, s, m) > 0}))

re_findall(kind, s) == FindAllFrom(s, 1, kind)

\* a faulty loop over the categories, without the break, so that the last
\* category with a keyword in the title wins: C7 fails with it
LastCategory(section_lower) ==
    LET k == Last({c \in 1..Len(Categories) :
                     \E n \in 1..Len(content_keywords[c]) :
                         Contains(section_lower, content_keywords[c][n])})
    IN IF section_lower = "" \/ k = 0 THEN None ELSE Categories[k]

\* for category, keywords in self.content_keywords.items(): ... break
\* (the first category, in the order of the dict, with a keyword in the title)
FirstCategory(section_lower) ==
    LET k == First({c \in 1..Len(Categories) :
                      \E n \in 1..Len(content_keywords[c]) :
                          Contains(section_lower, content_keywords[c][n])})
    IN IF section_lower = "" \/ k = 0 THEN None ELSE Categories[k]

\* the summary the code extracts for a content type: its regular expression,
\* the label of the summary line and the separator of the matches
Summary(content_type) ==
    CASE content_type \in FinancialCategories ->
            [kind |-> "amounts", label |-> "Amount Information", sep |-> ", "]
      [] content_type = "requirements" ->
            [kind |-> "requirements", label |-> "Required Courses/Prerequisites",
             sep |-> " "]
      [] content_type = "mcat" ->
            [kind |-> "scores", label |-> "MCAT Scores", sep |-> ", "]
      [] content_type = "gpa" ->
            [kind |-> "gpas", label |-> "GPA Requirements", sep |-> ", "]
      [] content_type = "timeline" ->
            [kind |-> "dates", label |-> "Important Dates", sep |-> ", "]
      [] OTHER -> [kind |-> "none", label |-> "", sep |-> ""]

\* the text with the summary line of its matches, if any, put before it
WithSummary(summary, matches, cleaned_text) ==
    IF matches = <<>> THEN cleaned_text
    ELSE summary.label \o ": " \o Join(summary.sep, matches) \o "\n" \o cleaned_text

\* the return value for a content type and a cleaned text
Classified(content_type, cleaned_text) ==
    IF cleaned_text = "" THEN <<None, None>>
    ELSE <<content_type,
           WithSummary(Summary(content_type),
                       re_findall(Summary(content_type).kind, cleaned_text),
                       cleaned_text)>>

\* returns <<content_type, text>>
extract_content_by_category(text, section_title) ==
    Classified(FirstCategory(Lower(section_title)), clean_text(text))

-----------------------------------------------------------------------------
(* MountSinaiScraper.extract_content *)

(***************************************************************************)
(* A parsed document (the BeautifulSoup tree) is a record                  *)
(*   [h1, title : text or None,                                            *)
(*    sections : the section/div/article nodes of the main content, in     *)
(*               document order, each [header : text or None,              *)
(*               elems : its p/li/div descendants, each                    *)
(*                       [name, text, has_p_li]],                          *)
(*    anchors : the href of every <a href>, in document order]             *)
(* where a text is what get_text(strip=True) returns for the element.      *)
(***************************************************************************)

\* the cleaned text of an element that was looked for, "" when it is absent
CleanedOrEmpty(elem_text) == IF elem_text # None THEN clean_text(elem_text) ELSE ""

\* title_elem = soup.find('h1') or soup.find('title')
PageTitle(soup) == CleanedOrEmpty(IF soup.h1 # None THEN soup.h1 ELSE soup.title)

\* section_title of one section node
SectionTitle(section) == CleanedOrEmpty(section.header)

\* section_text += text + '\n', for a text that is not empty
Line(text) == IF text # "" THEN text \o "\n" ELSE ""

\* what one p/li/div element adds to section_text: nothing for a div without
\* p/li descendants
ElemLine(elem) ==
    IF elem.name = "div" /\ ~elem.has_p_li THEN "" ELSE Line(clean_text(elem.text))

RECURSIVE SectionTextFrom(_, _)
SectionTextFrom(elems, k) ==
    IF k > Len(elems) THEN ""
    ELSE ElemLine(elems[k]) \o SectionTextFrom(elems, k + 1)

\* section_text of one section node
SectionText(section) == SectionTextFrom(section.elems, 1)

\* section_title and section_text of one section node
Extracted(section) ==
    [heading |-> SectionTitle(section), content |-> SectionText(section)]

\* the branches after the call of extract_content_by_category, which
\* returned result: the list that is appended to (the category of the bucket,
\* or "sections") and the item appended
Store(sec, result) ==
    IF result[1] # None THEN [to |-> result[1], item |-> result[2]]
    ELSE [to |-> "sections", item |-> sec]

\* the body of the loop over the section nodes, for the section node with
\* title and text sec; if section_text: ... (to = "": nothing is appended)
AddSection(sec) ==
    IF sec.content = "" THEN [to |-> "", item |-> ""]
    ELSE Store(sec, extract_content_by_category(sec.content, sec.heading))

\* appended to a list
IsAppend(a) == a.to # ""

\* for section in main_content.find_all(...): the appends made, in order
AddSections(sections) ==
    SelectSeq([k \in 1..Len(sections) |-> AddSection(Extracted(sections[k]))],
              IsAppend)

\* a faulty list of the content dict, which holds the last item appended
\* only: C23 fails with it
LastItemOnly(appends, to) ==
    LET made == SelectSeq(appends, LAMBDA a : a.to = to)
    IN IF made = <<>> THEN <<>> ELSE <<made[Len(made)].item>>

\* a list of the content dict after the appends: its items, in order
Items(appends, to) ==
    LET made == SelectSeq(appends, LAMBDA a : a.to = to)
    IN [k \in 1..Len(made) |-> made[k].item]

\* the content dict extract_content returns, given the title and the appends
Content(url, title, appends) ==
    [url |-> url, title |-> title, intro |-> <<>>,
     sections |-> Items(appends, "sections"),
     financial_info |-> [c \in FinancialCategories |-> Items(appends, c)],
     admissions_info |-> [c \in AdmissionsCategories |-> Items(appends, c)]]

extract_content(soup, url) ==
    Content(url, PageTitle(soup), AddSections(soup.sections))

-----------------------------------------------------------------------------
(* MountSinaiScraper.save_results *)

\* financial_sections + admissions_sections: the display names, by category
DisplayNames == <<"Tuition and Fees", "Financial Aid", "Scholarships and Grants",
                  "Loans", "Cost of Living", "Academic Requirements",
                  "MCAT Information", "GPA Requirements", "Application Timeline",
                  "Interview Process", "Selection Criteria">>

\* content['financial_info'][category] or content['admissions_info'][category]
Bucket(c, category) ==
    IF category \in FinancialCategories THEN c.financial_info[category]
    ELSE c.admissions_info[category]

\* a faulty chunk of a bucket, with the first block only: C8 fails with it
FirstBlockOnly(name, section_content) ==
    IF section_content # <<>> THEN <<name \o "\n\n" \o section_content[1]>>
    ELSE <<>>

\* if section_content: text_chunks.append(f"{name}\n\n" + "\n\n".join(...))
CategoryChunk(name, section_content) ==
    IF section_content # <<>>
    THEN <<name \o "\n\n" \o Join("\n\n", section_content)>>
    ELSE <<>>

\* the chunks of the category buckets from the k-th on
RECURSIVE CategoryChunksFrom(_, _)
CategoryChunksFrom(c, k) ==
    IF k > Len(Categories) THEN <<>>
    ELSE CategoryChunk(DisplayNames[k], Bucket(c, Categories[k]))
         \o CategoryChunksFrom(c, k + 1)

\* for section in content['sections']: ...
SectionChunks(c) ==
    [k \in 1..Len(c.sections) |->
        c.sections[k].heading \o "\n\n" \o c.sections[k].content]

\* faulty text_chunks, with the chunks of the generic sections first: C6
\* fails with them
GenericFirst(c) ==
    SectionChunks(c) \o CategoryChunksFrom(c, 1)
    \o CategoryChunk("Introduction", c.intro)

\* processed_content[url]['text_chunks']: the category chunks, the chunk of
\* content['intro'], the chunks of content['sections']
TextChunks(c) ==
    CategoryChunksFrom(c, 1) \o CategoryChunk("Introduction", c.intro)
    \o SectionChunks(c)

\* processed_content
Processed(corpus) ==
    [url \in DOMAIN corpus |->
        [title |-> corpus[url].title, text_chunks |-> TextChunks(corpus[url])]]

-----------------------------------------------------------------------------
(* The web site: what self.session.get returns *)

\* the faults (connection errors, timeouts) the network may add to a run
MaxFaults == 1

\* a p, li or div element: its text and whether it has p/li descendants
P(text) == [name |-> "p", text |-> text, has_p_li |-> FALSE]
Li(text) == [name |-> "li", text |-> text, has_p_li |-> FALSE]
Div(text, has_p_li) == [name |-> "div", text |-> text, has_p_li |-> has_p_li]

Section(header, elems) == [header |-> header, elems |-> elems]

TuitionSection == Section("Tuition Rates", <<P("Tuition is $45,000 per year")>>)

FinancialAidDoc ==
    [h1 |-> "Financial Aid", title |-> "Financial Aid | Icahn School of Medicine",
     sections |-> <<TuitionSection,
                    Section(None, <<P("Aid is available &amp; renewable.")>>),
                    Section("Deadlines", <<Li("Apply by 2025-03-01.")>>)>>,
     anchors |-> <<"#top",
                   "/education/financial-aid/tuition",
                   "/education/financial-aid",
                   "https://icahn.mssm.edu.evil.com/financial-aid",
                   "https://example.org/admissions",
                   "/about/contact",
                   "/education/financial-aid/forms/aid-application.pdf",
                   "/education/financial-aid/brochure?file=aid.pdf">>]

ServicesDoc ==
    [h1 |-> None, title |-> "Student Financial Services",
     sections |-> <<Section("Loans and Debt", <<P("Borrow up to $20,500."),
                                                 Div("menu", FALSE)>>),
                    Section("Contact", <<P("Write to finaid@mssm.edu")>>)>>,
     anchors |-> <<"/education/financial-aid/md-need-based",
                   "education/financial-aid/tuition",
                   "mailto:finaid@mssm.edu",
                   "/education/financial-aid/loans">>]

AdmissionsDoc ==
    [h1 |-> "MD Admissions", title |-> None,
     sections |-> <<Section("MCAT and GPA", <<Li("MCAT 510-528 or above"),
                                               Li("GPA 3.5 or above")>>),
                    Section("Requirements", <<P("Required: one year of biology.")>>),
                    Section("Interview", <<P("   ")>>)>>,
     anchors |-> <<"/education/medical/admissions/interview",
                   "/education/medical/Admissions/Timeline",
                   "/education/financial-aid/forms/aid-application.pdf",
                   "/about/Campus-Map.PDF",
                   "/education/financial-aid/forms/aid-application.pdf">>]

SmallDoc ==
    [h1 |-> "Scholarships", title |-> "Scholarships",
     sections |-> <<Section("Merit Awards", <<P("Awards cover tuition.")>>)>>,
     anchors |-> <<>>]

\* response bodies that are no document: the empty text and a PDF file
EmptyText == [empty |-> TRUE]
PdfBody == [pdf |-> TRUE]

ErrorDoc ==
    [h1 |-> "Error", title |-> "Error", sections |-> <<>>, anchors |-> <<>>]

\* what get_page returns when it fails
NoHtml == [none |-> TRUE]

Ok(text) == [kind |-> "http", status |-> 200, history |-> FALSE, url |-> None,
             text |-> text]
Redirected(final_url, status, text) ==
    [kind |-> "http", status |-> status, history |-> TRUE, url |-> final_url,
     text |-> text]
Status(status) == [kind |-> "http", status |-> status, history |-> FALSE,
                   url |-> None, text |-> ErrorDoc]
ConnectionError == [kind |-> "exc"]

\* the responses the site may give to a GET of the URL written path after
\* base_url (after redirects)
PathResponses(path) ==
    CASE path = "/education/financial-aid" -> {Ok(FinancialAidDoc)}
      [] path = "/education/student-financial-services" -> {Ok(ServicesDoc)}
      [] path = "/education/enhanced-scholarship-initiative" -> {Ok(SmallDoc)}
      [] path = "/education/financial-aid/application" -> {Status(500)}
      [] path = "/education/financial-aid/md-need-based" -> {Status(500)}
      [] path = "/education/financial-aid/css-profile" -> {Status(403)}
      [] path = "/education/financial-aid/fafsa" ->
             {Redirected(base_url \o "/education/federal-aid", 200, SmallDoc)}
      [] path = "/education/financial-aid/loans" -> {Ok(EmptyText)}
      [] path = "/education/financial-aid/tuition" -> {Status(404)}
      [] path = "/education/financial-aid/payment" -> {ConnectionError}
      [] path = "/education/financial-aid/scholarships" -> {Ok(SmallDoc)}
      [] path = "/education/admissions/financial-aid" ->
             {Redirected(base_url \o "/education/financial-aid", 200,
                         FinancialAidDoc)}
      [] path = "/education/medical/financial-aid" -> {Status(404)}
      [] path = "/education/medical/admissions" -> {Ok(AdmissionsDoc)}
      [] path = "/education/medical/admissions/how-to-apply" -> {Status(410)}
      [] path = "/education/medical/admissions/requirements" -> {Ok(SmallDoc)}
      [] path = "/education/medical/admissions/selection-process" -> {Status(500)}
      [] path = "/education/medical/admissions/interview" ->
             {Status(429), Ok(SmallDoc)}
      [] path = "/education/medical/admissions/timeline" ->
             {Redirected(base_url \o "/education/medical/dates", 404, ErrorDoc)}
      [] path = "/education/medical/admissions/mcat" -> {Ok(SmallDoc)}
      [] path = "/education/medical/admissions/prerequisites" -> {Status(503)}
      [] path = "/education/financial-aid/forms/aid-application.pdf" ->
             {Ok(PdfBody), Status(500)}
      [] path = "/education/financial-aid/brochure?file=aid.pdf" -> {Ok(PdfBody)}
      [] path = "/about/Campus-Map.PDF" -> {Ok(PdfBody)}
      [] path = "https://icahn.mssm.edu.evil.com/financial-aid" -> {Ok(SmallDoc)}
      [] OTHER -> {Status(404)}

\* the responses to a GET of url: a URL of another host is looked up whole
SiteResponses(url) ==
    PathResponses(IF StartsWith(url, base_url \o "/")
                  THEN Between(url, Len(base_url) + 1, Len(url)) ELSE url)

\* the answers one request may get after n network faults: the response and
\* the number of faults afterwards
Respond(url, n) ==
    {[resp |-> r, faults |-> n] : r \in SiteResponses(url)}
    \cup (IF n < MaxFaults THEN {[resp |-> ConnectionError, faults |-> n + 1]}
          ELSE {})

\* response.ok, and what raise_for_status lets pass
IsOk(resp) == resp.kind = "http" /\ resp.status < 400

\* the entry of a request in the log of a get_page call: its URL, the status
\* of the response (0: the request raised an exception) and the seconds
\* get_page slept just before sending it
Logged(url, resp, slept) ==
    [url |-> url, status |-> IF resp.kind = "exc" THEN 0 ELSE resp.status,
     slept |-> slept]

-----------------------------------------------------------------------------
(* MountSinaiScraper.get_page *)

(***************************************************************************)
(* get_page(url) with the Known-Path List paths, after n network faults:   *)
(* the set of its possible outcomes, each                                  *)
(*   [html : the text returned, NoHtml for None,                           *)
(*    paths : self.important_paths afterwards,                             *)
(*    requests : the requests sent, in order, with their status,           *)
(*    faults : the number of network faults afterwards]                    *)
(***************************************************************************)

Outcome(html, paths, requests, n) ==
    [html |-> html, paths |-> paths, requests |-> requests, faults |-> n]

\* a faulty alt_paths, without the filter: the amended C4 fails with it
AllPaths(paths, url) == paths

\* alt_paths = [p for p in self.important_paths if p not in url]
AltPaths(paths, url) == SelectSeq(paths, LAMBDA p : ~Contains(url, p))

RECURSIVE TryAltPaths(_, _, _, _, _)

\* a faulty loop over alt_paths, which gives up at the first alternative
\* that does not answer ok: C16 fails with it
AfterAltStop(alt_paths, k, paths, requests, a) ==
    {Outcome(IF IsOk(a.resp) THEN a.resp.text ELSE NoHtml, paths, requests,
             a.faults)}

\* after the answer a to the request for the k-th alternative, logged in
\* requests: return its text if alt_response.ok, else go on with the loop
AfterAlt(alt_paths, k, paths, requests, a) ==
    IF IsOk(a.resp) THEN {Outcome(a.resp.text, paths, requests, a.faults)}
    ELSE TryAltPaths(alt_paths, k + 1, paths, requests, a.faults)

\* one turn of the loop over alt_paths, for alt_url
TryAlt(alt_paths, k, paths, requests, n, alt_url) ==
    UNION {AfterAlt(alt_paths, k, paths,
                    Append(requests, Logged(alt_url, a.resp, 0)), a)
           : a \in Respond(alt_url, n)}

\* the loop over alt_paths from the k-th on, after the requests sent so far
TryAltPaths(alt_paths, k, paths, requests, n) ==
    IF k > Len(alt_paths) THEN {Outcome(NoHtml, paths, requests, n)}
    ELSE TryAlt(alt_paths, k, paths, requests, n, urljoin(base_url, alt_paths[k]))

\* a faulty retry, which returns the body of the retry also when its status
\* is an error: C13 fails with it
RetryAnyBody(url, paths, requests, n) ==
    {Outcome(IF a.resp.kind = "exc" THEN NoHtml ELSE a.resp.text, paths,
             Append(requests, Logged(url, a.resp, 60)), a.faults)
     : a \in Respond(url, n)}

\* a faulty retry, which waits and retries once more when the retry failed:
\* C17 fails with it
RetryTwice(url, paths, requests, n) ==
    UNION {IF IsOk(a.resp)
           THEN {Outcome(a.resp.text, paths,
                         Append(requests, Logged(url, a.resp, 60)), a.faults)}
           ELSE {Outcome(IF IsOk(b.resp) THEN b.resp.text ELSE NoHtml, paths,
                         Append(Append(requests, Logged(url, a.resp, 60)),
                                Logged(url, b.resp, 60)), b.faults)
                 : b \in Respond(url, a.faults)}
           : a \in Respond(url, n)}

\* the single retry after the cooldown of a 429 or 403
RetryOnce(url, paths, requests, n) ==
    {Outcome(IF IsOk(a.resp) THEN a.resp.text ELSE NoHtml, paths,
             Append(requests, Logged(url, a.resp, 60)), a.faults)
     : a \in Respond(url, n)}

\* a faulty redirect bookkeeping, which appends the path also when the list
\* holds it: C20 fails with it
AlwaysRegister(paths, resp) ==
    IF resp.history THEN Append(paths, UrlPath(resp.url)) ELSE paths

\* self.important_paths after the redirect bookkeeping of a response
AfterRedirect(paths, resp) ==
    IF resp.history /\ \A k \in 1..Len(paths) : paths[k] # UrlPath(resp.url)
    THEN Append(paths, UrlPath(resp.url))
    ELSE paths

\* after raise_for_status on the first response, logged in requests
AfterStatus(url, paths, resp, requests, n) ==
    IF resp.status < 400 THEN {Outcome(resp.text, paths, requests, n)}
    ELSE IF resp.status = 404
    THEN TryAltPaths(AltPaths(paths, url), 1, paths, requests, n)
    ELSE IF resp.status \in {429, 403} THEN RetryOnce(url, paths, requests, n)
    ELSE {Outcome(NoHtml, paths, requests, n)}

\* after the answer a to the first request, sent after the 3 s delay
AfterFirst(url, paths, a) ==
    IF a.resp.kind = "exc"
    THEN {Outcome(NoHtml, paths, <<Logged(url, a.resp, 3)>>, a.faults)}
    ELSE AfterStatus(url, AfterRedirect(paths, a.resp), a.resp,
                     <<Logged(url, a.resp, 3)>>, a.faults)

get_page(url, paths, n) == UNION {AfterFirst(url, paths, a) : a \in Respond(url, n)}

\* not html
Falsy(html) == html = NoHtml \/ html = EmptyText

-----------------------------------------------------------------------------
(* MountSinaiScraper.download_pdf and should_follow_link *)

\* a faulty download_pdf, without the test of self.downloaded_pdfs: C29
\* fails with it
DownloadAgain(url, pdfs, n) ==
    {[pdfs |-> IF IsOk(a.resp) THEN pdfs \cup {url} ELSE pdfs,
      faults |-> a.faults, requests |-> <<Logged(url, a.resp, 0)>>]
     : a \in Respond(url, n)}

\* download_pdf(url): the possible [pdfs, faults] afterwards, with the
\* requests it sent
download_pdf(url, pdfs, n) ==
    IF url \in pdfs THEN {[pdfs |-> pdfs, faults |-> n, requests |-> <<>>]}
    ELSE {[pdfs |-> IF IsOk(a.resp) THEN pdfs \cup {url} ELSE pdfs,
           faults |-> a.faults, requests |-> <<Logged(url, a.resp, 0)>>]
          : a \in Respond(url, n)}

\* keywords of should_follow_link
FollowKeywords == <<"financial", "tuition", "scholarship", "aid", "admissions",
                    "apply", "requirements", "mcat", "interview", "selection",
                    "timeline", "prerequisites", "curriculum", "academic">>

\* url.startswith(self.base_url)
UnderBase(url) == StartsWith(url, base_url)

\* the link is a PDF that should_follow_link downloads instead of following
IsPdfLink(url) == UnderBase(url) /\ EndsWith(Lower(UrlPath(url)), ".pdf")

\* the rest of should_follow_link, for path = urlparse(url).path.lower()
FollowPath(path) ==
    /\ ~EndsWith(path, ".pdf")
    /\ \E k \in 1..Len(FollowKeywords) : Contains(path, FollowKeywords[k])

\* the value should_follow_link returns
should_follow_link(url) == UnderBase(url) /\ FollowPath(Lower(UrlPath(url)))

\* href and not href.startswith('#')
IsHref(href) == href # "" /\ ~StartsWith(href, "#")

\* full_url = urljoin(self.base_url, href), for the anchors the loop handles
FullUrls(anchors) ==
    [k \in 1..Len(SelectSeq(anchors, IsHref)) |->
        urljoin(base_url, SelectSeq(anchors, IsHref)[k])]

\* the calls of download_pdf, on the k-th of urls and those after it: the
\* possible [pdfs, faults] afterwards, with the requests sent
RECURSIVE DownloadFrom(_, _, _, _)
DownloadFrom(urls, k, pdfs, n) ==
    IF k > Len(urls) THEN {[pdfs |-> pdfs, faults |-> n, requests |-> <<>>]}
    ELSE UNION {{[pdfs |-> e.pdfs, faults |-> e.faults,
                  requests |-> d.requests \o e.requests]
                 : e \in DownloadFrom(urls, k + 1, d.pdfs, d.faults)}
                : d \in download_pdf(urls[k], pdfs, n)}

\* a faulty loop over the links, which appends a URL only when the Frontier
\* does not hold it yet: C10 fails with it
FollowedOnce(full_urls, queue, pdfs, n) ==
    {[queue |-> queue \o SelectSeq(full_urls,
                                   LAMBDA u : /\ should_follow_link(u)
                                              /\ \A k \in 1..Len(queue) : queue[k] # u),
      pdfs |-> d.pdfs, faults |-> d.faults, requests |-> d.requests]
     : d \in DownloadFrom(SelectSeq(full_urls, IsPdfLink), 1, pdfs, n)}

\* a faulty loop over the links, which puts the links of a page before the
\* URLs queued already: C11 fails with it
FollowedInFront(full_urls, queue, pdfs, n) ==
    {[queue |-> SelectSeq(full_urls, should_follow_link) \o queue,
      pdfs |-> d.pdfs, faults |-> d.faults, requests |-> d.requests]
     : d \in DownloadFrom(SelectSeq(full_urls, IsPdfLink), 1, pdfs, n)}

\* if self.should_follow_link(full_url): pages_to_visit.append(full_url),
\* over the links in document order; should_follow_link downloads the PDFs
\* among them on the way
Followed(full_urls, queue, pdfs, n) ==
    {[queue |-> queue \o SelectSeq(full_urls, should_follow_link),
      pdfs |-> d.pdfs, faults |-> d.faults, requests |-> d.requests]
     : d \in DownloadFrom(SelectSeq(full_urls, IsPdfLink), 1, pdfs, n)}

\* the loop over soup.find_all('a', href=True): the possible
\* [queue, pdfs, faults] afterwards, with the requests download_pdf sent
FollowLinks(anchors, queue, pdfs, n) ==
    Followed(FullUrls(anchors), queue, pdfs, n)
-----------------------------------------------------------------------------
(* MountSinaiScraper.scrape *)

\* the dequeue steps after which a run is cut off
MaxDequeues == 64

\* a file not written yet, a document not given
Absent == [absent |-> TRUE]

NoSection == [title |-> "", text |-> ""]

\* what a step of scrape did: the URL it dequeued, the html get_page gave it,
\* the requests get_page sent and the requests download_pdf sent
Did(op, url, html, requests, downloads) ==
    [op |-> op, url |-> url, html |-> html, requests |-> requests,
     downloads |-> downloads]

\* the state after MountSinaiScraper(config)
Constructed ==
    /\ pages_to_visit = <<>>
    /\ visited_urls = {}
    /\ content = <<>>
    /\ important_paths = InitialPaths
    /\ downloaded_pdfs = {}
    /\ raw_file = Absent
    /\ processed_file = Absent
    /\ get_page_calls = <<>>
    /\ last = Did("new", "", NoHtml, <<>>, <<>>)
    /\ faults = 0
    /\ tally = [seeds |-> 0, appended |-> 0, dequeued |-> 0]

Init ==
    /\ pc = "start"
    /\ Constructed
    /\ doc = Absent
    /\ classify_in = NoSection
    /\ classified = <<None, None>>
    /\ validation = Absent

\* pages_to_visit = [urljoin(self.base_url, path) for path in self.important_paths]
Seeds(paths) == [k \in 1..Len(paths) |-> urljoin(base_url, paths[k])]

StartScrape ==
    /\ pc = "start"
    /\ pc' = "loop"
    /\ pages_to_visit' = Seeds(important_paths)
    /\ last' = Did("seed", "", NoHtml, <<>>, <<>>)
    /\ tally' = [tally EXCEPT !.seeds = Len(important_paths)]
    /\ UNCHANGED <<visited_urls, content, important_paths, downloaded_pdfs,
                   raw_file, processed_file, get_page_calls, faults, doc,
                   classify_in, classified, validation>>

\* while pages_to_visit: the loop goes on
Looping == pc = "loop" /\ pages_to_visit # <<>> /\ tally.dequeued < MaxDequeues

\* a faulty pop(0), which leaves the URL in the list: C3 fails with it
KeepQueue(queue) == queue

\* a faulty visited_urls.add(url), which forgets the URLs added before: C9
\* fails with it
OnlyUrl(visited, url) == {url}

\* a faulty handling of a dequeued URL, which never adds it to visited_urls:
\* C12 fails with it
NotMarked(visited, url) == visited

\* url = pages_to_visit.pop(0): the URL and what is left of the list
Dequeued == Head(pages_to_visit)

Popped(queue) == Tail(queue)

\* self.visited_urls.add(url)
MarkVisited(visited, url) == visited \cup {url}

\* the tally after a dequeue step that appended the links from the k-th
\* entry of queue on
Tallied(queue, k) ==
    [tally EXCEPT !.dequeued = @ + 1, !.appended = @ + Len(queue) - k + 1]

\* a faulty skip of a visited URL, which drops the record stored for it: C21
\* fails with it
DropOnSkip ==
    /\ Looping
    /\ Dequeued \in visited_urls
    /\ pages_to_visit' = Popped(pages_to_visit)
    /\ content' = [url \in DOMAIN content \ {Dequeued} |-> content[url]]
    /\ last' = Did("skip", Dequeued, NoHtml, <<>>, <<>>)
    /\ tally' = [tally EXCEPT !.dequeued = @ + 1]
    /\ UNCHANGED <<pc, visited_urls, important_paths, downloaded_pdfs,
                   raw_file, processed_file, get_page_calls, faults, doc,
                   classify_in, classified, validation>>

\* if url in self.visited_urls: continue
SkipVisited ==
    /\ Looping
    /\ Dequeued \in visited_urls
    /\ pages_to_visit' = Popped(pages_to_visit)
    /\ last' = Did("skip", Dequeued, NoHtml, <<>>, <<>>)
    /\ tally' = [tally EXCEPT !.dequeued = @ + 1]
    /\ UNCHANGED <<pc, visited_urls, content, important_paths, downloaded_pdfs,
                   raw_file, processed_file, get_page_calls, faults, doc,
                   classify_in, classified, validation>>

\* if url.lower().endswith('.pdf'): download_pdf, mark visited, continue
HandlePdf ==
    /\ Looping
    /\ Dequeued \notin visited_urls
    /\ EndsWith(Lower(Dequeued), ".pdf")
    /\ \E d \in download_pdf(Dequeued, downloaded_pdfs, faults) :
          /\ downloaded_pdfs' = d.pdfs
          /\ faults' = d.faults
          /\ last' = Did("pdf", Dequeued, NoHtml, <<>>, d.requests)
    /\ visited_urls' = MarkVisited(visited_urls, Dequeued)
    /\ pages_to_visit' = Popped(pages_to_visit)
    /\ tally' = [tally EXCEPT !.dequeued = @ + 1]
    /\ UNCHANGED <<pc, content, important_paths, raw_file, processed_file,
                   get_page_calls, doc, classify_in, classified, validation>>

\* a faulty handling of a fetch without a body, which marks the URL visited
\* when the body is the empty text: C27 fails with it
EmptyMarksVisited ==
    /\ Looping
    /\ Dequeued \notin visited_urls
    /\ ~EndsWith(Lower(Dequeued), ".pdf")
    /\ \E o \in get_page(Dequeued, important_paths, faults) :
          /\ Falsy(o.html)
          /\ important_paths' = o.paths
          /\ faults' = o.faults
          /\ last' = Did("failed", Dequeued, o.html, o.requests, <<>>)
          /\ visited_urls' = IF o.html = EmptyText
                             THEN MarkVisited(visited_urls, Dequeued)
                             ELSE visited_urls
    /\ get_page_calls' = Append(get_page_calls, Dequeued)
    /\ pages_to_visit' = Popped(pages_to_visit)
    /\ tally' = [tally EXCEPT !.dequeued = @ + 1]
    /\ UNCHANGED <<pc, content, downloaded_pdfs, raw_file, processed_file, doc,
                   classify_in, classified, validation>>

\* a variant of the handling of a fetch without a body, which marks the URL
\* visited: C28 fails with it
FailedMarksVisited ==
    /\ Looping
    /\ Dequeued \notin visited_urls
    /\ ~EndsWith(Lower(Dequeued), ".pdf")
    /\ \E o \in get_page(Dequeued, important_paths, faults) :
          /\ Falsy(o.html)
          /\ important_paths' = o.paths
          /\ faults' = o.faults
          /\ last' = Did("failed", Dequeued, o.html, o.requests, <<>>)
    /\ visited_urls' = MarkVisited(visited_urls, Dequeued)
    /\ get_page_calls' = Append(get_page_calls, Dequeued)
    /\ pages_to_visit' = Popped(pages_to_visit)
    /\ tally' = [tally EXCEPT !.dequeued = @ + 1]
    /\ UNCHANGED <<pc, content, downloaded_pdfs, raw_file, processed_file, doc,
                   classify_in, classified, validation>>

\* html = self.get_page(url); if not html: continue
FetchFailed ==
    /\ Looping
    /\ Dequeued \notin visited_urls
    /\ ~EndsWith(Lower(Dequeued), ".pdf")
    /\ \E o \in get_page(Dequeued, important_paths, faults) :
          /\ Falsy(o.html)
          /\ important_paths' = o.paths
          /\ faults' = o.faults
          /\ last' = Did("failed", Dequeued, o.html, o.requests, <<>>)
    /\ get_page_calls' = Append(get_page_calls, Dequeued)
    /\ pages_to_visit' = Popped(pages_to_visit)
    /\ tally' = [tally EXCEPT !.dequeued = @ + 1]
    /\ UNCHANGED <<pc, visited_urls, content, downloaded_pdfs, raw_file,
                   processed_file, doc, classify_in, classified, validation>>

\* a faulty loop body, which also marks the URL that delivered the body
\* (the alternate path of a 404 recovery) as visited: C26 fails with it
ProcessMarksSource ==
    /\ Looping
    /\ Dequeued \notin visited_urls
    /\ ~EndsWith(Lower(Dequeued), ".pdf")
    /\ \E o \in get_page(Dequeued, important_paths, faults) :
          /\ ~Falsy(o.html)
          /\ important_paths' = o.paths
          /\ content' = (Dequeued :> extract_content(o.html, Dequeued)) @@ content
          /\ visited_urls' = MarkVisited(visited_urls, Dequeued)
                                 \cup {o.requests[Len(o.requests)].url}
          /\ \E f \in FollowLinks(o.html.anchors, Popped(pages_to_visit),
                                  downloaded_pdfs, o.faults) :
                /\ pages_to_visit' = f.queue
                /\ downloaded_pdfs' = f.pdfs
                /\ faults' = f.faults
                /\ tally' = Tallied(f.queue, Len(pages_to_visit))
                /\ last' = Did("page", Dequeued, o.html, o.requests, f.requests)
    /\ get_page_calls' = Append(get_page_calls, Dequeued)
    /\ UNCHANGED <<pc, raw_file, processed_file, doc, classify_in, classified,
                   validation>>

\* the rest of the loop body: mark visited, extract, store, follow the links
ProcessPage ==
    /\ Looping
    /\ Dequeued \notin visited_urls
    /\ ~EndsWith(Lower(Dequeued), ".pdf")
    /\ \E o \in get_page(Dequeued, important_paths, faults) :
          /\ ~Falsy(o.html)
          /\ important_paths' = o.paths
          /\ content' = (Dequeued :> extract_content(o.html, Dequeued)) @@ content
          /\ \E f \in FollowLinks(o.html.anchors, Popped(pages_to_visit),
                                  downloaded_pdfs, o.faults) :
                /\ pages_to_visit' = f.queue
                /\ downloaded_pdfs' = f.pdfs
                /\ faults' = f.faults
                /\ tally' = Tallied(f.queue, Len(pages_to_visit))
                /\ last' = Did("page", Dequeued, o.html, o.requests, f.requests)
    /\ get_page_calls' = Append(get_page_calls, Dequeued)
    /\ visited_urls' = MarkVisited(visited_urls, Dequeued)
    /\ UNCHANGED <<pc, raw_file, processed_file, doc, classify_in, classified,
                   validation>>

\* a faulty scrape, which writes the files and stops while the Frontier may
\* hold URLs: C14 fails with it
SaveEarly ==
    /\ pc = "loop"
    /\ pc' = "done"
    /\ raw_file' = content
    /\ processed_file' = Processed(content)
    /\ last' = Did("save", "", NoHtml, <<>>, <<>>)
    /\ UNCHANGED <<pages_to_visit, visited_urls, content, important_paths,
                   downloaded_pdfs, get_page_calls, faults, tally, doc,
                   classify_in, classified, validation>>

\* self.save_results(), once the loop has ended
SaveResults ==
    /\ pc = "loop" /\ pages_to_visit = <<>>
    /\ pc' = "done"
    /\ raw_file' = content
    /\ processed_file' = Processed(content)
    /\ last' = Did("save", "", NoHtml, <<>>, <<>>)
    /\ UNCHANGED <<pages_to_visit, visited_urls, content, important_paths,
                   downloaded_pdfs, get_page_calls, faults, tally, doc,
                   classify_in, classified, validation>>

Next ==
    \/ StartScrape
    \/ SkipVisited
    \/ HandlePdf
    \/ FetchFailed
    \/ ProcessPage
    \/ SaveResults

Spec == Init /\ [][Next]_vars

-----------------------------------------------------------------------------
(* One page through extract_content and save_results *)

\* the section nodes a page may hold
MaxSections == 3

\* section nodes: with a category in the title, without one, without a
\* header, with a body that is empty once cleaned, with two categories in
\* the title, with several elements, with a body that is empty only when
\* it is cleaned as a whole
SectionPool ==
    {TuitionSection,
     Section("Loan Options", <<P("Borrow up to $20,500."), Div("menu", FALSE)>>),
     Section(None, <<P("Aid is available &amp; renewable.")>>),
     Section("MCAT Scores", <<Li("MCAT 510-528 or above"), Li("Median 518")>>),
     Section("Interview", <<P("   ")>>),
     Section("Tuition and Aid", <<Div("Fees: see  below", TRUE)>>),
     Section("Scholarship News", <<Li("See All"), Li("News and events")>>)}

\* the parsed pages: any sections of the pool, in any order
Documents ==
    {[h1 |-> None, title |-> "Costs &amp; Aid", sections |-> s, anchors |-> <<>>]
     : s \in UNION {[1..n -> SectionPool] : n \in 0..MaxSections}}

\* the URL of the page that is extracted, and of a page extracted before it
PageUrl == base_url \o "/education/financial-aid/tuition"
EarlierUrl == base_url \o "/education/enhanced-scholarship-initiative"

\* scrape has fetched and parsed a page; an earlier page is in self.content
InitPage ==
    /\ pc = "page"
    /\ doc \in Documents
    /\ content = (EarlierUrl :> extract_content(SmallDoc, EarlierUrl))
    /\ pages_to_visit = <<>>
    /\ visited_urls = {EarlierUrl, PageUrl}
    /\ important_paths = InitialPaths
    /\ downloaded_pdfs = {}
    /\ raw_file = Absent
    /\ processed_file = Absent
    /\ get_page_calls = <<EarlierUrl, PageUrl>>
    /\ last = Did("page", EarlierUrl, SmallDoc, <<>>, <<>>)
    /\ faults = 0
    /\ tally = [seeds |-> 0, appended |-> 0, dequeued |-> 2]
    /\ classify_in = NoSection
    /\ classified = <<None, None>>
    /\ validation = Absent

\* content = self.extract_content(soup, url); self.content[url] = content
ExtractPage ==
    /\ pc = "page"
    /\ pc' = "extracted"
    /\ content' = (PageUrl :> extract_content(doc, PageUrl)) @@ content
    /\ UNCHANGED <<pages_to_visit, visited_urls, important_paths, downloaded_pdfs,
                   raw_file, processed_file, get_page_calls, last, faults, tally,
                   doc, classify_in, classified, validation>>

\* self.save_results()
SavePage ==
    /\ pc = "extracted"
    /\ pc' = "saved"
    /\ raw_file' = content
    /\ processed_file' = Processed(content)
    /\ UNCHANGED <<pages_to_visit, visited_urls, content, important_paths,
                   downloaded_pdfs, get_page_calls, last, faults, tally, doc,
                   classify_in, classified, validation>>

NextPage == ExtractPage \/ SavePage

SpecPage == InitPage /\ [][NextPage]_vars

-----------------------------------------------------------------------------
(* One call of extract_content_by_category *)

\* the words a section title may have
MaxTitleWords == 2

\* words with a keyword of one category, of two categories, of none
TitleWords == {"Tuition", "AID: FAFSA", "Merit", "Loan", "MCAT", "Deadline",
               "Costly Grant", "Campus"}

RECURSIVE TitlesOf(_)
\* the titles of n words
TitlesOf(n) ==
    IF n = 0 THEN {""}
    ELSE {IF t = "" THEN w ELSE t \o " " \o w : t \in TitlesOf(n - 1), w \in TitleWords}

Titles == UNION {TitlesOf(n) : n \in 0..MaxTitleWords}

\* section texts: with matches of a summary, without, empty once cleaned
Bodies == {"MCAT 512 or above\nApply by 2025-03-01.\n", "See the office.\n", " \n"}

InitClassify ==
    /\ pc = "classify"
    /\ classify_in \in [title : Titles, text : Bodies]
    /\ classified = <<None, None>>
    /\ validation = Absent
    /\ doc = Absent
    /\ Constructed

\* content_type, processed_text = self.extract_content_by_category(...)
Classify ==
    /\ pc \in {"classify", "classified"}
    /\ pc' = "classified"
    /\ classified' = extract_content_by_category(classify_in.text, classify_in.title)
    /\ UNCHANGED <<pages_to_visit, visited_urls, content, important_paths,
                   downloaded_pdfs, raw_file, processed_file, get_page_calls,
                   last, faults, tally, doc, classify_in, validation>>

NextClassify == Classify

SpecClassify == InitClassify /\ [][NextClassify]_vars

-----------------------------------------------------------------------------
(* The claims about the crawl, checked under Spec *)

\* C1: every URL in the Frontier has the base host https://icahn.mssm.edu as
\* its scheme and host; a link of another host, also one whose host only
\* begins with the base-host string, is never appended.
C1_FrontierOnBaseHost ==
    \A k \in 1..Len(pages_to_visit) :
        LET url == pages_to_visit[k]
        IN SubSeq(url, 1, FirstOf(url, AfterScheme(url), {"/", "?", "#"}) - 1)
               = base_url

\* C2: get_page is called at most once for any URL during a run, whatever
\* the outcome of the first call was.
C2_FetchedAtMostOnce ==
    \A i, j \in 1..Len(get_page_calls) :
        get_page_calls[i] = get_page_calls[j] => i = j

\* the loop body can run for the URL at the head of the Frontier: the URL is
\* dropped as visited, or download_pdf returns, or get_page returns
StepPossible ==
    \/ Dequeued \in visited_urls
    \/ /\ EndsWith(Lower(Dequeued), ".pdf")
       /\ download_pdf(Dequeued, downloaded_pdfs, faults) # {}
    \/ get_page(Dequeued, important_paths, faults) # {}

\* C3: the run stops with an empty Frontier after at most as many dequeue
\* steps as there were seeds and links appended by link discovery. Stated
\* for a finite run: while the Frontier is not empty the loop body can run
\* and the cut-off MaxDequeues is not reached; every step of the loop is one
\* more dequeue step or, with the Frontier empty, the end of the run; the
\* dequeue steps taken and the entries left in the Frontier add up to the
\* seeds and the links appended; the run is done with the Frontier empty.
C3_Terminates ==
    /\ [](pc = "loop" /\ pages_to_visit # <<>> =>
             tally.dequeued < MaxDequeues /\ StepPossible)
    /\ [][pc = "loop" =>
             \/ pc' = "loop" /\ tally'.dequeued = tally.dequeued + 1
             \/ pc' = "done" /\ pages_to_visit = <<>> /\ tally' = tally]_vars
    /\ [](pc \in {"loop", "done"} =>
             tally.dequeued + Len(pages_to_visit) = tally.seeds + tally.appended)
    /\ [](pc = "done" => pages_to_visit = <<>>)

\* a run that ended after dequeuing links found on the way
C3_Witness ==
    /\ pc = "done"
    /\ tally.appended > 0
    /\ tally.dequeued > tally.seeds

\* get_page was called for <base>/education/financial-aid/tuition and the
\* server answered its request with 404, while /education/financial-aid is in
\* the Known-Path List and answers 200
TuitionNotFound ==
    /\ last.op \in {"page", "failed"}
    /\ last.url = base_url \o "/education/financial-aid/tuition"
    /\ last.requests[1].status = 404
    /\ \E k \in 1..Len(important_paths) :
           important_paths[k] = "/education/financial-aid"
    /\ Ok(FinancialAidDoc) \in SiteResponses(base_url \o "/education/financial-aid")

\* the request of the log entry was answered with a response that is ok
OkEntry(entry) == entry.status # 0 /\ entry.status < 400

\* C4, as the spec states it: after a 404 for .../financial-aid/tuition,
\* get_page returns the body of /education/financial-aid.
C4_ReturnsFinancialAidBody ==
    TuitionNotFound => last.html = FinancialAidDoc

\* C4, amended: after a 404 for .../financial-aid/tuition, get_page never
\* requests /education/financial-aid, which is a substring of the requested
\* URL; it requests, in the order of the Known-Path List and without delay,
\* the entries that are no substring of the requested URL, until one answers
\* ok, and returns the body of that one, or fails when none does.
C4_SubstituteSkipsSubstrings ==
    LET url == base_url \o "/education/financial-aid/tuition"
        alt == SelectSeq(important_paths, LAMBDA p : ~Contains(url, p))
        reqs == last.requests
        n == Len(last.requests)
    IN TuitionNotFound =>
         /\ \A k \in 1..n : reqs[k].url # base_url \o "/education/financial-aid"
         /\ n <= Len(alt) + 1
         /\ \A k \in 2..n : reqs[k].url = base_url \o alt[k - 1] /\ reqs[k].slept = 0
         /\ \A k \in 2..(n - 1) : ~OkEntry(reqs[k])
         /\ IF last.html = NoHtml
            THEN n = Len(alt) + 1 /\ ~OkEntry(reqs[n])
            ELSE /\ n >= 2
                 /\ OkEntry(reqs[n])
                 /\ \E r \in SiteResponses(reqs[n].url) :
                        IsOk(r) /\ r.text = last.html

\* the substitute was the page of the second entry of the Known-Path List
C4_Witness ==
    /\ TuitionNotFound
    /\ last.op = "page"
    /\ Len(last.requests) = 2
    /\ last.requests[2].url = base_url \o "/education/student-financial-services"
    /\ last.html = ServicesDoc

\* C9: the Visited Set never loses an element: after every step it is a
\* superset of what it was before.
C9_VisitedMonotone == [][visited_urls \subseteq visited_urls']_vars

\* several URLs have been visited
C9_Witness == Cardinality(visited_urls) >= 2 /\ last.op = "page"

\* href is accepted by the loop over the anchors and the should-follow policy
Accepted(href) ==
    /\ href # ""
    /\ ~StartsWith(href, "#")
    /\ should_follow_link(urljoin(base_url, href))

\* C10: a step that processes a page appends exactly one entry to the
\* Frontier for every anchor occurrence the should-follow policy accepts, in
\* document order, whether or not its URL is visited or queued already; a
\* step that dequeues a visited URL only drops it: no fetch, no change of
\* Corpus, Visited Set or Known-Path List.
C10_AppendPerAnchor ==
    [][/\ (last'.op = "page" /\ tally'.dequeued = tally.dequeued + 1) =>
            LET anchors == last'.html.anchors
                acc == {k \in 1..Len(last'.html.anchors) :
                            Accepted(last'.html.anchors[k])}
                old == Tail(pages_to_visit)
            IN /\ Len(pages_to_visit') = Len(old) + Cardinality(acc)
               /\ SubSeq(pages_to_visit', 1, Len(old)) = old
               /\ \A k \in acc :
                      pages_to_visit'[Len(old) + Cardinality({j \in acc : j <= k})]
                          = urljoin(base_url, anchors[k])
       /\ (last'.op = "skip" /\ tally'.dequeued = tally.dequeued + 1) =>
            /\ Head(pages_to_visit) \in visited_urls
            /\ pages_to_visit' = Tail(pages_to_visit)
            /\ UNCHANGED <<content, visited_urls, important_paths, get_page_calls>>
      ]_vars

\* a link was appended although its URL was visited and queued already, and
\* a visited URL was dropped at dequeue
C10_Witness ==
    /\ last.op = "skip"
    /\ tally.dequeued > tally.seeds
    /\ \E i, j \in 1..Len(pages_to_visit) :
           /\ i < j
           /\ pages_to_visit[i] = pages_to_visit[j]
           /\ pages_to_visit[i] \in visited_urls

-----------------------------------------------------------------------------
(* The claims about one page, checked under SpecPage *)

\* C5: the section with heading "Tuition Rates" and paragraph "Tuition is
\* $45,000 per year" is stored in the tuition bucket with the line "Amount
\* Information: $45,000 per year" put before its text.
C5_AmountLinePrepended ==
    (/\ pc \in {"extracted", "saved"}
     /\ \E k \in 1..Len(doc.sections) : doc.sections[k] = TuitionSection) =>
        \E b \in 1..Len(content[PageUrl].financial_info["tuition"]) :
            StartsWith(content[PageUrl].financial_info["tuition"][b],
                       "Amount Information: $45,000 per year\n")

\* the categories whose bucket in the page record c is not empty, as their
\* positions in the fixed order
Filled(c) == {k \in 1..Len(Categories) : Bucket(c, Categories[k]) # <<>>}

\* C6: for every page, text_chunks has the chunks of the non-empty category
\* buckets first, in the fixed order of the categories, and after them the
\* chunks of the generic sections, in the order they were recorded.
C6_CategoryChunksFirst ==
    pc = "saved" =>
        \A url \in DOMAIN processed_file :
            LET c == raw_file[url]
                chunks == processed_file[url].text_chunks
                n == Cardinality(Filled(raw_file[url]))
            IN /\ Len(chunks) = n + Len(c.sections)
               /\ \A k \in Filled(c) :
                      StartsWith(chunks[Cardinality({j \in Filled(c) : j <= k})],
                                 DisplayNames[k] \o "\n\n")
               /\ \A j \in 1..Len(c.sections) :
                      chunks[n + j] = c.sections[j].heading \o "\n\n"
                                          \o c.sections[j].content

\* a saved page with chunks of two categories and of a generic section
C6_Witness ==
    /\ pc = "saved"
    /\ Cardinality(Filled(raw_file[PageUrl])) >= 2
    /\ raw_file[PageUrl].sections # <<>>

\* C8: the raw and the processed output have the same URL keys; for every
\* URL, the blocks of every non-empty category bucket of the raw record make
\* up, verbatim and in bucket order, separated by blank lines, the text of
\* exactly one processed chunk, the one headed by the display name of the
\* category, and an empty bucket has no such chunk.
C8_BucketsRoundTrip ==
    pc = "saved" =>
        /\ DOMAIN raw_file = DOMAIN processed_file
        /\ \A url \in DOMAIN raw_file : \A k \in 1..Len(Categories) :
               LET blocks == Bucket(raw_file[url], Categories[k])
                   chunks == processed_file[url].text_chunks
                   headed == {i \in 1..Len(processed_file[url].text_chunks) :
                                 StartsWith(processed_file[url].text_chunks[i],
                                            DisplayNames[k] \o "\n\n")}
               IN /\ Cardinality(headed) = (IF blocks = <<>> THEN 0 ELSE 1)
                  /\ \A i \in headed :
                         chunks[i] = DisplayNames[k] \o "\n\n" \o Join("\n\n", blocks)
                  /\ \A b \in 1..Len(blocks) :
                         blocks[b] # "" /\ ~Contains(blocks[b], "\n\n")

\* a saved page with a bucket of two blocks, and two URLs in the outputs
C8_Witness ==
    /\ pc = "saved"
    /\ Cardinality(DOMAIN processed_file) = 2
    /\ Len(raw_file[PageUrl].financial_info["tuition"]) >= 2

-----------------------------------------------------------------------------
(* The claim about the classifier, checked under SpecClassify *)

\* the categories with a keyword in the lower-cased title, as their
\* positions in the declaration order
Matching(title) ==
    {k \in 1..Len(Categories) :
        \E n \in 1..Len(content_keywords[k]) :
            Contains(Lower(title), content_keywords[k][n])}

\* the category returned is the first one with a keyword in the title, and
\* none when there is no such category
FirstMatchReturned ==
    IF Matching(classify_in.title) = {} THEN classified[1] = None
    ELSE \E k \in Matching(classify_in.title) :
            /\ \A j \in Matching(classify_in.title) : k <= j
            /\ classified[1] = Categories[k]

\* C7, as the spec states it: for any section title and body, the category
\* returned is the first category, in the declaration order, one of whose
\* keywords is a substring of the lower-cased title.
C7_FirstMatchAnyBody == pc = "classified" => FirstMatchReturned

\* C7, amended: when the body is not empty after cleaning, the category
\* returned is the first category, in the declaration order, one of whose
\* keywords is a substring of the lower-cased title, also when keywords of
\* later categories occur in it; when the body is empty after cleaning, no
\* category and no text are returned, whatever the title.
C7_FirstMatchWins ==
    pc = "classified" =>
        IF clean_text(classify_in.text) = "" THEN classified = <<None, None>>
        ELSE FirstMatchReturned

\* a title with keywords of several categories was classified
C7_Witness ==
    /\ pc = "classified"
    /\ Cardinality(Matching(classify_in.title)) >= 2
    /\ classified[1] # None
    /\ FirstMatchReturned

-----------------------------------------------------------------------------
(* The claims about the order of the crawl and its bookkeeping, checked    *)
(* under Spec                                                              *)

\* the URLs of hrefs, resolved against base_url, in the order of hrefs
Resolved(hrefs) == [k \in 1..Len(hrefs) |-> urljoin(base_url, hrefs[k])]

\* added is made of entries of from, taken in the order they have in from
InOrderOf(added, from) ==
    \E f \in [1..Len(added) -> 1..Len(from)] :
        /\ \A i \in 1..Len(added) : from[f[i]] = added[i]
        /\ \A i, j \in 1..Len(added) : i < j => f[i] < f[j]

\* C11: the Frontier is seeded with the Known-Path List in list order; every
\* dequeue step takes the entry at the front; what a step appends comes after
\* everything that was queued, and the links of one page are appended in the
\* order of their anchors in the page; no step changes the Frontier in
\* another way.
C11_FifoOrder ==
    [][/\ pc = "start" =>
            pages_to_visit' = [k \in 1..Len(important_paths) |->
                                   base_url \o important_paths[k]]
       /\ (pc = "loop" /\ pc' = "loop") =>
            LET old == Tail(pages_to_visit)
                added == SubSeq(pages_to_visit', Len(pages_to_visit),
                                Len(pages_to_visit'))
            IN /\ last'.url = Head(pages_to_visit)
               /\ Len(pages_to_visit') >= Len(old)
               /\ SubSeq(pages_to_visit', 1, Len(old)) = old
               /\ IF last'.op = "page"
                  THEN InOrderOf(added, Resolved(last'.html.anchors))
                  ELSE added = <<>>
       /\ pc' = "done" => pages_to_visit' = pages_to_visit
      ]_vars

\* the first link that was appended has been dequeued, after all the seeds
\* and before another link appended after it
C11_Witness ==
    /\ pc = "loop"
    /\ tally.dequeued = tally.seeds + 1
    /\ tally.appended >= 2
    /\ pages_to_visit # <<>>

\* url.lower().endswith('.pdf'), as scrape tests the dequeued URL
IsPdfUrl(url) == EndsWith(Lower(url), ".pdf")

\* C12: a step that dequeues a URL with the PDF suffix, not visited yet,
\* leaves the state download_pdf leaves for that URL, with the download done
\* or failed, adds the URL to the Visited Set, calls get_page for no URL and
\* leaves the Corpus as it was; a step that calls get_page or adds a
\* PageRecord does so for the dequeued URL, which has no PDF suffix.
C12_PdfHandedOff ==
    [][/\ (/\ pc = "loop" /\ pc' = "loop"
           /\ Head(pages_to_visit) \notin visited_urls
           /\ IsPdfUrl(Head(pages_to_visit))) =>
              /\ last'.op = "pdf"
              /\ last'.url = Head(pages_to_visit)
              /\ \E d \in download_pdf(Head(pages_to_visit), downloaded_pdfs,
                                       faults) :
                     d.pdfs = downloaded_pdfs' /\ d.faults = faults'
              /\ visited_urls' = visited_urls \cup {Head(pages_to_visit)}
              /\ get_page_calls' = get_page_calls
              /\ content' = content
              /\ pages_to_visit' = Tail(pages_to_visit)
       /\ get_page_calls' # get_page_calls =>
              /\ get_page_calls' = Append(get_page_calls, Head(pages_to_visit))
              /\ ~IsPdfUrl(Head(pages_to_visit))
       /\ content' # content =>
              /\ DOMAIN content' = DOMAIN content \cup {Head(pages_to_visit)}
              /\ ~IsPdfUrl(Head(pages_to_visit))]_vars

\* a dequeued PDF whose download failed is visited all the same
C12_Witness ==
    /\ last.op = "pdf"
    /\ last.url \in visited_urls
    /\ last.url \notin downloaded_pdfs

\* C13: a step that calls get_page gets a value back; when the last request
\* of the call raised an exception or had an error status, the value is
\* None; when the value is None or empty, the step leaves the Corpus as it
\* was, appends no link, only drops the dequeued URL, and the loop goes on:
\* the loop body can run for the next URL of the Frontier.
C13_FailureIsLocal ==
    /\ [][get_page_calls' # get_page_calls =>
            /\ last'.requests # <<>>
            /\ last'.html = NoHtml \/ last'.html \in {r.text : r \in
                   {q \in SiteResponses(last'.requests[Len(last'.requests)].url)
                      : IsOk(q)}}
            /\ ~OkEntry(last'.requests[Len(last'.requests)]) => last'.html = NoHtml
            /\ Falsy(last'.html) =>
                  /\ last'.op = "failed"
                  /\ content' = content
                  /\ pages_to_visit' = Tail(pages_to_visit)
                  /\ pc' = "loop"]_vars
    /\ [](last.op = "failed" /\ pages_to_visit # <<>> =>
             pc = "loop" /\ StepPossible)

\* a fetch failed with an exception, and the Frontier holds more URLs
C13_Witness ==
    /\ last.op = "failed"
    /\ last.requests[Len(last.requests)].status = 0
    /\ content # <<>>
    /\ pages_to_visit # <<>>

\* C14: the raw and the processed output are written in one step, the one
\* that ends the run, which is taken with the Frontier empty and the files
\* not written yet, and after which the run takes no step; so the files are
\* written in no state where the Frontier holds a URL, and a run that is
\* done has saved exactly once.
C14_SavedOnceAtEnd ==
    /\ [][/\ pc # "done"
          /\ (last'.op = "save" \/ raw_file' # raw_file
                \/ processed_file' # processed_file \/ pc' = "done") =>
                /\ pc = "loop" /\ pc' = "done"
                /\ pages_to_visit = <<>> /\ pages_to_visit' = <<>>
                /\ raw_file = Absent /\ processed_file = Absent
                /\ raw_file' = content
                /\ processed_file' = Processed(content)
                /\ last'.op = "save"]_vars
    /\ [](pc # "done" => raw_file = Absent /\ processed_file = Absent)
    /\ [](pc = "done" =>
            /\ last.op = "save"
            /\ pages_to_visit = <<>>
            /\ raw_file = content
            /\ processed_file # Absent)

\* the run is done and the files hold the records of several pages
C14_Witness ==
    /\ pc = "done"
    /\ raw_file # Absent
    /\ Cardinality(DOMAIN raw_file) >= 2
    /\ DOMAIN processed_file = DOMAIN raw_file

\* C15: every URL get_page was called for is in the Visited Set, whether the
\* fetch succeeded or failed.
C15_FetchedIsVisited ==
    \A k \in 1..Len(get_page_calls) : get_page_calls[k] \in visited_urls

-----------------------------------------------------------------------------
(* One call of get_page *)

\* the requests of one call that a network outage may fail
MaxOutage == 21

\* the URLs passed to get_page: the seeds and a page the site does not have
FetchUrls ==
    {urljoin(base_url, InitialPaths[k]) : k \in 1..Len(InitialPaths)}
        \cup {base_url \o "/about/contact"}

\* scrape has dequeued a URL that it passes to get_page; the Known-Path List
\* is the catalog, or the catalog and a path registered after a redirect; the
\* network is up but for the faults left to the run, or down for up to
\* MaxOutage requests
InitFetch ==
    /\ pc = "fetch"
    /\ \E url \in FetchUrls : last = Did("dequeued", url, NoHtml, <<>>, <<>>)
    /\ important_paths \in {InitialPaths,
                            Append(InitialPaths, "/education/federal-aid")}
    /\ faults \in {0, MaxFaults - MaxOutage}
    /\ pages_to_visit = <<>>
    /\ visited_urls = {}
    /\ content = <<>>
    /\ downloaded_pdfs = {}
    /\ raw_file = Absent
    /\ processed_file = Absent
    /\ get_page_calls = <<>>
    /\ tally = [seeds |-> 0, appended |-> 0, dequeued |-> 1]
    /\ doc = Absent
    /\ classify_in = NoSection
    /\ classified = <<None, None>>
    /\ validation = Absent

\* html = self.get_page(url)
Fetch ==
    /\ pc = "fetch"
    /\ pc' = "fetched"
    /\ \E o \in get_page(last.url, important_paths, faults) :
          /\ important_paths' = o.paths
          /\ faults' = o.faults
          /\ last' = Did(IF Falsy(o.html) THEN "failed" ELSE "page", last.url,
                         o.html, o.requests, <<>>)
    /\ get_page_calls' = Append(get_page_calls, last.url)
    /\ UNCHANGED <<pages_to_visit, visited_urls, content, downloaded_pdfs,
                   raw_file, processed_file, tally, doc, classify_in, classified,
                   validation>>

NextFetch == Fetch

SpecFetch == InitFetch /\ [][NextFetch]_vars

-----------------------------------------------------------------------------
(* The claims about get_page, checked under SpecFetch *)

\* the Known-Path List entries that are no substring of url, in list order
NotInUrl(paths, url) == SelectSeq(paths, LAMBDA p : ~Contains(url, p))

\* C16: when the first request of a get_page call is answered with 404, the
\* requests after it go, in list order, to the Known-Path List entries that
\* are no substring of the requested URL, each written after the base host;
\* a request is sent only after every alternate before it raised an
\* exception or answered with an error; the call returns the body of the
\* first alternate that answers ok, and None when all of them were tried and
\* none did.
C16_AlternatesInOrder ==
    (pc = "fetched" /\ last.requests[1].status = 404) =>
        LET alt == NotInUrl(important_paths, last.url)
            reqs == last.requests
            n == Len(last.requests)
        IN /\ n <= Len(alt) + 1
           /\ \A k \in 2..n : reqs[k].url = base_url \o alt[k - 1]
           /\ \A k \in 2..(n - 1) : ~OkEntry(reqs[k])
           /\ IF n >= 2 /\ OkEntry(reqs[n])
              THEN \E r \in SiteResponses(reqs[n].url) :
                       IsOk(r) /\ r.text = last.html
              ELSE n = Len(alt) + 1 /\ last.html = NoHtml

\* after a 404, alternates raised an exception or answered with an error,
\* and a later one gave the body
C16_Witness ==
    /\ pc = "fetched"
    /\ last.requests[1].status = 404
    /\ \E j, k \in 2..Len(last.requests) :
           last.requests[j].status = 0 /\ last.requests[k].status >= 400
    /\ last.html # NoHtml

\* the requests of the call that went to the URL get_page was called for
ToOriginal == {k \in 1..Len(last.requests) : last.requests[k].url = last.url}

\* C17: when the first request of a get_page call is answered with 429 or
\* 403, the call sends one more request and no other: to the same URL, after
\* the cooldown of 60 seconds; it returns the body of that retry when it
\* answers ok and None when it answers with an error or raises an exception.
\* No get_page call sends more than two requests to the URL it was called for.
C17_RetriesOnce ==
    pc = "fetched" =>
        /\ Cardinality(ToOriginal) <= 2
        /\ last.requests[1].status \in {429, 403} =>
              /\ Len(last.requests) = 2
              /\ last.requests[2].url = last.url
              /\ last.requests[2].slept = 60
              /\ IF OkEntry(last.requests[2])
                 THEN \E r \in SiteResponses(last.url) :
                          IsOk(r) /\ r.text = last.html
                 ELSE last.html = NoHtml

\* a 429 was followed by a retry that gave the body
C17_Witness ==
    /\ pc = "fetched"
    /\ last.requests[1].status = 429
    /\ Len(last.requests) = 2
    /\ last.requests[2].status = 200
    /\ last.html = SmallDoc

\* C18: every request of a get_page call, the first one, those to the
\* alternates after a 404 and the retry after a 429 or 403, is sent right
\* after a delay of at least the 3 seconds of the courtesy delay.
C18_DelayBeforeEveryRequest ==
    pc = "fetched" =>
        \A k \in 1..Len(last.requests) : last.requests[k].slept >= 3

\* the path has a keyword of the relevance filter of should_follow_link
Relevant(path) ==
    \E k \in 1..Len(FollowKeywords) : Contains(Lower(path), FollowKeywords[k])

\* C19: a path that get_page has appended to the Known-Path List after a
\* redirect has a keyword of the relevance filter, and no path string is in
\* the list twice, so that a redirect to a URL without a keyword leaves the
\* list as it was.
C19_RegistersRelevantOnly ==
    /\ \A k \in 1..Len(important_paths) :
           \/ \E j \in 1..Len(InitialPaths) : InitialPaths[j] = important_paths[k]
           \/ Relevant(important_paths[k])
    /\ \A j, k \in 1..Len(important_paths) :
           important_paths[j] = important_paths[k] => j = k

-----------------------------------------------------------------------------
(* The claim about the Known-Path List during the crawl, checked under Spec *)

\* C20: in every state no path string is in the Known-Path List twice; every
\* step leaves the entries the list had where they were and at most adds
\* entries at its end; the Frontier is seeded in the first step only, and
\* every entry a later step adds to the Frontier is a link of the page
\* fetched in that step that the should-follow policy accepts, also in a step
\* that appends a path to the Known-Path List.
C20_KnownPathsAppendOnly ==
    /\ [](\A j, k \in 1..Len(important_paths) :
             important_paths[j] = important_paths[k] => j = k)
    /\ [][/\ Len(important_paths') >= Len(important_paths)
          /\ SubSeq(important_paths', 1, Len(important_paths)) = important_paths
          /\ pc' # "start"
          /\ pc' = "done" => pages_to_visit' = pages_to_visit
          /\ (pc = "loop" /\ pc' = "loop") =>
                \A k \in Len(pages_to_visit)..Len(pages_to_visit') :
                    /\ last'.op = "page"
                    /\ \E a \in 1..Len(last'.html.anchors) :
                           /\ Accepted(last'.html.anchors[a])
                           /\ pages_to_visit'[k]
                                  = urljoin(base_url, last'.html.anchors[a])]_vars

\* a step registered the path of a redirect and appended links of the page,
\* and the registered path is not in the Frontier
C20_Witness ==
    /\ last.op = "page"
    /\ Len(important_paths) > Len(InitialPaths)
    /\ last.requests[1].url # last.requests[Len(last.requests)].url
    /\ tally.appended > 0
    /\ \A k \in 1..Len(pages_to_visit) :
           pages_to_visit[k] # base_url \o important_paths[Len(important_paths)]

-----------------------------------------------------------------------------
(* More claims about the crawl, checked under Spec *)

\* C21: a step of the crawl never removes or changes a record of the Corpus;
\* a step that changes the Corpus stores one record, under the URL it
\* dequeued, which had no record before: a record is stored at most once per
\* URL and stays as it was stored (title, buckets and generic sections).
C21_RecordStoredOnce ==
    [][/\ \A url \in DOMAIN content :
              url \in DOMAIN content' /\ content'[url] = content[url]
       /\ content' # content =>
              /\ Dequeued \notin DOMAIN content
              /\ DOMAIN content' = DOMAIN content \cup {Dequeued}
              /\ last'.op = "page"]_vars

\* a URL that has a record was dequeued again, with several records stored
C21_Witness ==
    /\ last.op = "skip"
    /\ last.url \in DOMAIN content
    /\ Cardinality(DOMAIN content) >= 2

-----------------------------------------------------------------------------
(* More claims about one page, checked under SpecPage *)

\* C22: a section whose body is empty after cleaning adds nothing to the
\* record of the page, whatever its title: every entry of the generic
\* sections and every block of a category bucket comes from a body that is
\* not empty once cleaned.
C22_EmptyBodySkipped ==
    pc \in {"extracted", "saved"} =>
        /\ \A k \in 1..Len(content[PageUrl].sections) :
               clean_text(content[PageUrl].sections[k].content) # ""
        /\ \A c \in 1..Len(Categories) :
               \A b \in 1..Len(Bucket(content[PageUrl], Categories[c])) :
                   Bucket(content[PageUrl], Categories[c])[b] # ""

\* the sections of the page with a body (section_text) that is not empty, in
\* document order, each with its title, its body and what the classifier
\* returns for them
WithBody ==
    LET secs == SelectSeq(doc.sections, LAMBDA s : SectionText(s) # "")
    IN [k \in 1..Len(secs) |->
           [heading |-> SectionTitle(secs[k]),
            content |-> SectionText(secs[k]),
            result |-> extract_content_by_category(SectionText(secs[k]),
                                                   SectionTitle(secs[k]))]]

\* of the sections with_body, those the classifier gave the content type to
TypedAs(with_body, content_type) ==
    SelectSeq(with_body, LAMBDA s : s.result[1] = content_type)

\* C23: in the record of a page, the bucket of every category holds the
\* texts the classifier returned for the sections with a non-empty body
\* that it gave that category, one block per section in document order (a
\* later section of the category comes after the earlier ones, which are
\* kept); the generic sections hold one {heading, content} entry for every
\* section with a non-empty body that got no category, in document order; a
\* section with an empty body has no entry, so the record has one entry per
\* section with a non-empty body.
C23_OneEntryPerSection ==
    pc \in {"extracted", "saved"} =>
        LET with_body == WithBody
            generic == TypedAs(with_body, None)
        IN /\ \A c \in 1..Len(Categories) :
                  LET typed == TypedAs(with_body, Categories[c])
                  IN Bucket(content[PageUrl], Categories[c]) =
                         [k \in 1..Len(typed) |-> typed[k].result[2]]
           /\ content[PageUrl].sections =
                  [k \in 1..Len(generic) |->
                      [heading |-> generic[k].heading,
                       content |-> generic[k].content]]
           /\ \A k \in 1..Len(with_body) :
                  with_body[k].result[1]
                      \in {None} \cup {Categories[c] : c \in 1..Len(Categories)}

\* a page of three sections, two of them in the tuition bucket with
\* different blocks and one with an empty body
C23_Witness ==
    /\ pc = "extracted"
    /\ Len(doc.sections) = 3
    /\ Len(WithBody) = 2
    /\ Len(content[PageUrl].financial_info["tuition"]) = 2
    /\ content[PageUrl].financial_info["tuition"][1]
           # content[PageUrl].financial_info["tuition"][2]

-----------------------------------------------------------------------------
(* More claims about the classifier, checked under SpecClassify *)

\* the structured-extraction pattern the spec names for a category
NamedPattern(category) ==
    CASE category = "tuition" -> "amounts"
      [] category \in {"aid", "timeline"} -> "dates"
      [] category \in {"mcat"} -> "scores"
      [] category \in {"gpa"} -> "gpas"
      [] category = "requirements" -> "requirements"
      [] OTHER -> "none"

\* C24: for a section classified as tuition, aid, timeline, mcat, gpa,
\* requirements, interview or selection, the text returned is the cleaned
\* body with one line put before it when the pattern of the category
\* (currency amounts for tuition, deadline dates for aid and timeline,
\* numeric ranges for mcat and gpa, requirement sentences for requirements)
\* has a match in the cleaned body, and the cleaned body itself when it has
\* none or the category has no pattern.
C24_PatternByCategory ==
    (/\ pc = "classified"
     /\ classified[1] \in {"tuition", "aid", "timeline", "mcat", "gpa",
                           "requirements", "interview", "selection"}) =>
        LET cleaned_text == clean_text(classify_in.text)
        IN IF re_findall(NamedPattern(classified[1]), cleaned_text) = <<>>
           THEN classified[2] = cleaned_text
           ELSE /\ classified[2] # cleaned_text
                /\ EndsWith(classified[2], "\n" \o cleaned_text)
                /\ ~Contains(Before(classified[2],
                                    Len(classified[2]) - Len(cleaned_text)), "\n")

-----------------------------------------------------------------------------
(* SmartPreMedValidator.validate_coverage and analyze_category_coverage *)

\* the names of self.core_categories, in declaration order
core_categories == <<"Admissions Process & Requirements",
                     "Financial Information",
                     "Curriculum & Academic Experience",
                     "Research & Scholarly Opportunities",
                     "Clinical Experience & Training",
                     "Student Life & Support",
                     "Special Programs & Opportunities">>

max_retries == 3
retry_delay == 1

\* a faulty backoff, which waits retry_delay after every failure: C25 fails
\* with it
FixedDelay(attempt) == retry_delay

\* wait_time = retry_delay * (2 ** attempt)
wait_time(attempt) == retry_delay * 2 ^ attempt

(***************************************************************************)
(* validation is Absent outside a run of validate_coverage; in a run it is *)
(*   [category : the position in core_categories of the category of the    *)
(*               loop of validate_coverage,                                *)
(*    attempt : the value of attempt in analyze_category_coverage,         *)
(*    log : history, per call of self.client.chat.completions.create its   *)
(*          category, attempt, whether it returned a response with an      *)
(*          analysis, and the seconds slept after it,                      *)
(*    results : the list results of validate_coverage]                     *)
(* The prompt that analyze_category_coverage builds from the content       *)
(* (lines 299-377) is not part of the state: the language model answers or *)
(* fails whatever it is.                                                   *)
(***************************************************************************)

\* SmartPreMedValidator(...) was constructed, validate_coverage was called
InitValidate ==
    /\ pc = "validate"
    /\ validation = [category |-> 1, attempt |-> 0, log |-> <<>>, results |-> <<>>]
    /\ doc = Absent
    /\ classify_in = NoSection
    /\ classified = <<None, None>>
    /\ Constructed

\* web_content, pdf_content = self.load_content(); results = []
LoadContent ==
    /\ pc = "validate"
    /\ pc' = "analyze"
    /\ UNCHANGED <<pages_to_visit, visited_urls, content, important_paths,
                   downloaded_pdfs, raw_file, processed_file, get_page_calls,
                   last, faults, tally, doc, classify_in, classified, validation>>

\* load_content logs the exception of open or json.load and raises it again
LoadFails ==
    /\ pc = "validate"
    /\ pc' = "raised"
    /\ UNCHANGED <<pages_to_visit, visited_urls, content, important_paths,
                   downloaded_pdfs, raw_file, processed_file, get_page_calls,
                   last, faults, tally, doc, classify_in, classified, validation>>

\* the call of the language model made for the category of the loop, as it
\* is logged, given whether it succeeded and the seconds slept after it
Called(ok, slept) ==
    Append(validation.log,
           [category |-> core_categories[validation.category],
            attempt |-> validation.attempt, ok |-> ok, slept |-> slept])

\* the try block runs to its end: return {"category", "analysis"}, and
\* validate_coverage appends the result and goes on with the next category
CallSucceeds ==
    /\ pc = "analyze"
    /\ validation.category <= Len(core_categories)
    /\ validation' =
           [category |-> validation.category + 1, attempt |-> 0,
            log |-> Called(TRUE, 0),
            results |-> Append(validation.results,
                               [category |-> core_categories[validation.category],
                                analysis |-> "Coverage Assessment: 60%"])]
    /\ UNCHANGED <<pc, pages_to_visit, visited_urls, content, important_paths,
                   downloaded_pdfs, raw_file, processed_file, get_page_calls,
                   last, faults, tally, doc, classify_in, classified>>

\* except Exception, with attempt < max_retries - 1: time.sleep(wait_time)
\* and the next turn of the loop over range(max_retries)
CallFailsRetry ==
    /\ pc = "analyze"
    /\ validation.category <= Len(core_categories)
    /\ validation.attempt < max_retries - 1
    /\ validation' =
           [validation EXCEPT !.attempt = @ + 1,
                              !.log = Called(FALSE, wait_time(validation.attempt))]
    /\ UNCHANGED <<pc, pages_to_visit, visited_urls, content, important_paths,
                   downloaded_pdfs, raw_file, processed_file, get_page_calls,
                   last, faults, tally, doc, classify_in, classified>>

\* except Exception, on the last attempt: return {"category", "error"}, and
\* validate_coverage appends the result and goes on with the next category
CallFailsLast ==
    /\ pc = "analyze"
    /\ validation.category <= Len(core_categories)
    /\ validation.attempt >= max_retries - 1
    /\ validation' =
           [category |-> validation.category + 1, attempt |-> 0,
            log |-> Called(FALSE, 0),
            results |-> Append(validation.results,
                               [category |-> core_categories[validation.category],
                                error |-> "Error after 3 attempts: timed out"])]
    /\ UNCHANGED <<pc, pages_to_visit, visited_urls, content, important_paths,
                   downloaded_pdfs, raw_file, processed_file, get_page_calls,
                   last, faults, tally, doc, classify_in, classified>>

\* the loop over self.core_categories has ended: return results
ReturnResults ==
    /\ pc = "analyze"
    /\ validation.category > Len(core_categories)
    /\ pc' = "validated"
    /\ UNCHANGED <<pages_to_visit, visited_urls, content, important_paths,
                   downloaded_pdfs, raw_file, processed_file, get_page_calls,
                   last, faults, tally, doc, classify_in, classified, validation>>

NextValidate ==
    \/ LoadContent
    \/ LoadFails
    \/ CallSucceeds
    \/ CallFailsRetry
    \/ CallFailsLast
    \/ ReturnResults

SpecValidate == InitValidate /\ [][NextValidate]_vars

-----------------------------------------------------------------------------
(* The claim about the validator, checked under SpecValidate *)

\* the calls of the language model logged for a category, in order
CallsFor(category) ==
    SelectSeq(validation.log, LAMBDA call : call.category = category)

\* C25: in a run of validate_coverage that has loaded the content, the
\* language model is called at most 3 times for a category, as attempts 0,
\* 1 and 2; a call that succeeds is the last one for its category and no
\* sleep follows it; a sleep of 1 second follows the first failure, one of
\* 2 seconds the second, none the third.  The k-th result is the one of the
\* k-th core category: the analysis when the last call for the category
\* succeeded, an error result when three calls failed.  The calls are made
\* category by category in declaration order, a run that returns has one
\* result per core category, and the run raises only when it could not load
\* the content, before any call.
C25_BoundedRetry ==
    pc \in {"analyze", "validated", "raised"} =>
        /\ \A c \in 1..Len(core_categories) :
               LET calls == CallsFor(core_categories[c])
               IN /\ Len(calls) <= 3
                  /\ \A k \in 1..Len(calls) :
                         /\ calls[k].attempt = k - 1
                         /\ calls[k].ok => k = Len(calls) /\ calls[k].slept = 0
                         /\ ~calls[k].ok =>
                                calls[k].slept = (CASE k = 1 -> 1 [] k = 2 -> 2
                                                    [] OTHER -> 0)
                  /\ c <= Len(validation.results) =>
                         /\ validation.results[c].category = core_categories[c]
                         /\ calls # <<>>
                         /\ DOMAIN validation.results[c] =
                                IF calls[Len(calls)].ok
                                THEN {"category", "analysis"}
                                ELSE {"category", "error"}
                         /\ ~calls[Len(calls)].ok => Len(calls) = 3
                  /\ c > Len(validation.results) =>
                         /\ Len(calls) <= 2
                         /\ \A k \in 1..Len(calls) : ~calls[k].ok
                  /\ c > Len(validation.results) + 1 => calls = <<>>
        /\ Len(validation.results) <= Len(core_categories)
        /\ pc = "validated" => Len(validation.results) = Len(core_categories)
        /\ pc = "raised" => validation.log = <<>> /\ validation.results = <<>>

\* a run has returned, with an error result after three failed calls and
\* with an analysis that took three calls
C25_Witness ==
    /\ pc = "validated"
    /\ \E a, b \in 1..Len(core_categories) :
          /\ "error" \in DOMAIN validation.results[a]
          /\ "analysis" \in DOMAIN validation.results[b]
          /\ Len(CallsFor(core_categories[b])) = 3

-----------------------------------------------------------------------------
(* The claims about the Visited Set and the PDFs, checked under Spec *)

\* the URL of the last request of the get_page call of the step just taken
Source == last'.requests[Len(last'.requests)].url

\* C26: when a step of the crawl fetched a page whose first request was
\* answered 404 and an alternate path delivered the body, the record built
\* from that body is stored under the URL that was dequeued, and that URL
\* is the only one the step adds to the Visited Set: the URL of the
\* alternate path is in the Visited Set afterwards only if it was before.
C26_AlternateStoredUnderRequested ==
    [][(/\ last'.op = "page"
        /\ get_page_calls' # get_page_calls
        /\ Len(last'.requests) > 1
        /\ last'.requests[1].status = 404) =>
            /\ Source # Dequeued
            /\ last'.url = Dequeued
            /\ \E r \in SiteResponses(Source) : IsOk(r) /\ r.text = last'.html
            /\ DOMAIN content' = DOMAIN content \cup {Dequeued}
            /\ content'[Dequeued] = extract_content(last'.html, Dequeued)
            /\ visited_urls' = visited_urls \cup {Dequeued}
            /\ Source \in visited_urls' <=> Source \in visited_urls]_vars

\* the page /education/financial-aid was fetched under its own URL after its
\* body had been stored, as the alternate of a 404, under the URL
\* /education/medical/financial-aid: the Corpus holds its content twice
C26_Witness ==
    /\ last.op = "page"
    /\ last.url = base_url \o "/education/financial-aid"
    /\ Len(last.requests) = 1
    /\ (base_url \o "/education/medical/financial-aid") \in DOMAIN content
    /\ content[base_url \o "/education/medical/financial-aid"].sections
           = content[last.url].sections
    /\ content[base_url \o "/education/medical/financial-aid"].financial_info
           = content[last.url].financial_info

\* the number of get_page calls made for url
FetchesOf(url) ==
    Cardinality({k \in 1..Len(get_page_calls) : get_page_calls[k] = url})

\* C27: a step of the crawl whose get_page call returned an empty body,
\* which only a response that is ok gives, does what a step with a failed
\* fetch does: it removes the URL from the front of the Frontier and
\* changes neither the Visited Set nor the Corpus nor the downloaded PDFs,
\* and it appends no link; the URL, when it is not in the Visited Set, is
\* thus fetched again when a later step dequeues it.
C27_EmptyBodyIsFailure ==
    /\ [][(get_page_calls' # get_page_calls /\ last'.html = EmptyText) =>
            /\ last'.op = "failed"
            /\ last'.url = Dequeued
            /\ OkEntry(last'.requests[Len(last'.requests)])
            /\ visited_urls' = visited_urls
            /\ content' = content
            /\ downloaded_pdfs' = downloaded_pdfs
            /\ pages_to_visit' = Tail(pages_to_visit)]_vars
    /\ [][(/\ pc = "loop" /\ pc' = "loop"
           /\ Dequeued \notin visited_urls
           /\ ~IsPdfUrl(Dequeued)) =>
               get_page_calls' = Append(get_page_calls, Dequeued)]_vars

\* a URL whose fetch gave an empty body has been fetched a second time
C27_Witness ==
    /\ last.op = "failed"
    /\ last.html = EmptyText
    /\ FetchesOf(last.url) >= 2
    /\ last.url \notin visited_urls

\* C28: in every state of a run every URL with a record in the Corpus is
\* in the Visited Set, and every URL of the Visited Set without a record
\* ends, in lower case, in ".pdf".
C28_CorpusWithinVisited ==
    /\ DOMAIN content \subseteq visited_urls
    /\ \A url \in visited_urls \ DOMAIN content : IsPdfUrl(url)

\* the Visited Set holds a URL without a record beside those of several
\* records
C28_Witness ==
    /\ visited_urls \ DOMAIN content # {}
    /\ Cardinality(DOMAIN content) >= 2

\* the last four characters of the path of url are ".pdf", in any case
HasPdfPath(url) ==
    LET path == UrlPath(url)
    IN Len(path) >= 4 /\ Lower(SubSeq(path, Len(path) - 3, Len(path))) = ".pdf"

\* the links of a page, resolved, that start with base_url and whose path
\* ends, in lower case, in ".pdf", in document order
PdfLinks(anchors) ==
    SelectSeq(Resolved(SelectSeq(anchors, LAMBDA h : h # "" /\ ~StartsWith(h, "#"))),
              LAMBDA u : StartsWith(u, base_url) /\ HasPdfPath(u))

\* the requests of log for url, in order
RequestsFor(log, url) == SelectSeq(log, LAMBDA r : r.url = url)

\* C29: download_pdf sends a request only for a URL that is not recorded in
\* downloaded_pdfs, and a step records exactly the URLs whose request was
\* answered ok.  A step that processed a page sends such requests for the
\* PDF links of the page only, in document order: none for a link that is
\* recorded, and for a link that is not, one per occurrence of the link in
\* the page until one is answered ok (a failed download is tried again at
\* the next occurrence); this holds whether or not the path of the link
\* has a follow keyword, and no PDF link is appended to the Frontier.
C29_PdfLinksDownloaded ==
    [][/\ \A k \in 1..Len(last'.downloads) :
              /\ last'.downloads[k].url \notin downloaded_pdfs
              /\ \A j \in 1..(k - 1) :
                     last'.downloads[j].url = last'.downloads[k].url
                         => ~OkEntry(last'.downloads[j])
       /\ last' # last =>
              downloaded_pdfs' = downloaded_pdfs \cup
                  {last'.downloads[k].url : k \in
                      {j \in 1..Len(last'.downloads) : OkEntry(last'.downloads[j])}}
       /\ (last' # last /\ last'.op = "page") =>
              LET links == PdfLinks(last'.html.anchors)
                  added == SubSeq(pages_to_visit', Len(pages_to_visit),
                                  Len(pages_to_visit'))
              IN /\ InOrderOf([k \in 1..Len(last'.downloads) |->
                                  last'.downloads[k].url], links)
                 /\ \A k \in 1..Len(links) :
                        LET sent == RequestsFor(last'.downloads, links[k])
                        IN /\ \A a \in 1..Len(added) : added[a] # links[k]
                           /\ links[k] \in downloaded_pdfs => sent = <<>>
                           /\ links[k] \notin downloaded_pdfs =>
                                 /\ sent # <<>>
                                 /\ Len(sent) <= Len(SelectSeq(links,
                                                     LAMBDA u : u = links[k]))
                                 /\ ~OkEntry(sent[Len(sent)]) =>
                                        Len(sent) = Len(SelectSeq(links,
                                                        LAMBDA u : u = links[k]))
       /\ (last' # last /\ last'.op \notin {"page", "pdf"}) =>
              last'.downloads = <<>>]_vars

\* a page with the same PDF link twice and a PDF link without a follow
\* keyword was processed: the first download of the former failed and the
\* second was answered ok, and the latter was downloaded as well
C29_Witness ==
    /\ last.op = "page"
    /\ Len(last.downloads) = 3
    /\ last.downloads[1].url = last.downloads[3].url
    /\ ~OkEntry(last.downloads[1])
    /\ OkEntry(last.downloads[3])
    /\ last.downloads[2].url = base_url \o "/about/Campus-Map.PDF"
    /\ ~FollowPath(Lower(UrlPath(last.downloads[2].url)))
    /\ last.downloads[2].url \in downloaded_pdfs
    /\ \A k \in 1..Len(pages_to_visit) : pages_to_visit[k] # last.downloads[2].url

=============================================================================
